---- MODULE Spec2Model ----
(***************************************************************************)
(* Model of the laptop-tools Dropbox utilities:                            *)
(*   - scripts/catalog-dropbox.py : the resumable crawler (main,           *)
(*     get_folder_stats, save/load/clear_checkpoint);                      *)
(*   - scripts/smart-dedupe.py    : the duplicate resolver (smart_dedupe   *)
(*     and its keep policies);                                             *)
(*   - scripts/batch-delete-fast.py, scripts/batch-delete.py : the batch   *)
(*     deleters (batch_delete_fast, process_batch_result, batch_delete).   *)
(* Each subsystem has its own specification (CrawlSpec, DedupeSpec,        *)
(* BatchSpec) over its own group of variables; the other groups are held   *)
(* constant.                                                               *)
(***************************************************************************)
EXTENDS Integers, Sequences, FiniteSets, TLC

(***************************************************************************)
(* Bounds of the model.                                                    *)
(***************************************************************************)
MaxPages == 3      \* pages the PageFetcher serves for one listing
MaxEntries == 4    \* entries of one listing, over all its pages
MaxFiles == 4      \* files in a catalog given to smart_dedupe
MaxPlan == 3       \* paths in a deletion plan
MaxBatchSize == 2  \* batch_size given to a deleter
MaxPolls == 2      \* in_progress answers of one async delete job
MaxNameLen == 2    \* characters after the leading '/' of a path of a plan file
MaxLines == 2      \* paths written to a plan file
MaxAnalyzed == 2   \* files given to analyze_files
MaxInventory == 3  \* files of a catalog report whose savings are computed
MaxGroups == 2     \* duplicate groups given to find-recipe-dupes.py or to find-photo-dupes.py
MaxGroupPaths == 3 \* paths of one duplicate group of find-recipe-dupes.py
MaxGroupPhotos == 3 \* photos of one hash group of find-photo-dupes.py

(* catalog-dropbox.py:31 sets 10000; the model scales the interval down so *)
(* that several multiples of it are crossed within the bounds above.       *)
CHECKPOINT_INTERVAL == 2

VARIABLES
    pages,              \* the backing listing: pages[k] = kinds of the entries of page k
    store,              \* the file CHECKPOINT_FILE
    pc,                 \* position of the running script
    all_files,          \* get_folder_stats: all_files
    all_folders,        \* get_folder_stats: all_folders
    result,             \* get_folder_stats: result (0 = None, k = the k-th page)
    pos,                \* index of the next entry of result.entries
    resume_checkpoint,  \* get_folder_stats: resume_checkpoint as loaded (state "absent" = None)
    loaded,             \* what load_checkpoint met in this run: "none", "absent", "valid", "corrupt"
    crawl,              \* how get_folder_stats ended in this run: "none", "ok", "error"
    outcome,            \* what main reported: "none", "complete", "scan_failed", "cancelled", "killed"
    fetches,            \* the requests get_folder_stats made in this run: cursor passed (0: none), answer
    catalog,            \* smart_dedupe: data['analysis']['all_files'] (path, hash)
    duplicates,         \* smart_dedupe: duplicates, the items of data['analysis']['duplicates']
    target_folders,     \* smart_dedupe: target_folders
    policy,             \* smart_dedupe: the keep_preference passed ("none" = None)
    group,              \* smart_dedupe: index of the next item of duplicates.items()
    to_delete,          \* smart_dedupe: to_delete
    kept,               \* the hash and keep_path of every group that got one, in order
    dpc,                \* position of smart_dedupe
    deleter,            \* which script runs: "batch_delete_fast" or "batch_delete"
    plan,               \* batch_delete_fast / batch_delete: paths
    batch_size,         \* batch_delete_fast / batch_delete: batch_size
    remote,             \* the paths present in the Dropbox account
    remote0,            \* remote as it was when the running script started
    offset,             \* the loop variable i: offset in paths of the chunk (batch_delete: of the path) in hand
    deleted,            \* batch_delete_fast / batch_delete: deleted
    failed,             \* batch_delete_fast / batch_delete: failed
    polls,              \* in_progress answers the job in hand has given
    submitted,          \* the chunks handed to files_delete_batch, in order
    entries,            \* the per-path results the API returned, in order
    printed,            \* the outcome lines written to stdout, in order
    failed_paths,       \* the paths each increment of failed stood for, in order
    raised,             \* the call an uncaught exception came from, "none" if none
    reran,              \* whether the script was started again on the same plan
    chunk_state,        \* the state each submitted chunk is in, in order of submission
    processed,          \* the calls of process_batch_result made for each submitted chunk
    slept,              \* the time.sleep made after each chunk that reached its end (0: none)
    poll_wait,          \* the time.sleep made before the last files_delete_batch_check (0: none yet)
    bpc,                \* position of the deleter
    file_list,          \* analyze_files: files
    analysis,           \* analyze_files: analysis
    file_idx,           \* analyze_files: index of the next file of the loop of line 186
    bucket_of,          \* the age bucket each file of the loop was counted in ("" for none)
    apc,                \* position of analyze_files
    report_files,       \* the catalog report: analysis['all_files'] (<<>> when the key is missing)
    report_duplicates,  \* the catalog report: the items of analysis['duplicates']
    dup_size,           \* generate_recommendations: dup_size
    duplicate_groups_by_savings, \* analyze_duplicates: duplicate_groups_by_savings
    ran,                \* which of the two savings computations have run
    to_write,           \* smart-dedupe.py __main__: to_delete, the plan to be written
    plan_text,          \* the characters of the plan file
    loaded_paths,       \* the deleter's __main__: paths as loaded from the plan file
    fpc,                \* position of the plan on its way from resolver to deleter
    recipe_all_files,   \* find-recipe-dupes.py: data['analysis']['all_files']
    recipe_duplicates,  \* find-recipe-dupes.py: the items of duplicates, the paths of each
    recipe_group,       \* find-recipe-dupes.py: index of the next item of duplicates.items()
    recipe_dupes_to_delete, \* find-recipe-dupes.py: recipe_dupes_to_delete
    decisions,          \* paths, keep_path and delete_paths of every group that reached line 48
    rpc,                \* position of find-recipe-dupes.py
    hash_groups,        \* find-photo-dupes.py analyze_duplicates: the values of hash_groups
    photo_group,        \* analyze_duplicates: index of the next item of hash_groups.items()
    photo_duplicates,   \* analyze_duplicates: duplicates, with the index of the group as key
    total_dupe_count,   \* analyze_duplicates: total_dupe_count
    total_dupe_size,    \* analyze_duplicates: total_dupe_size
    ppc                 \* position of analyze_duplicates

crawlVars == <<pages, store, pc, all_files, all_folders, result, pos,
               resume_checkpoint, loaded, crawl, outcome, fetches>>
dedupeVars == <<catalog, duplicates, target_folders, policy, group, to_delete, kept, dpc>>
batchVars == <<deleter, plan, batch_size, remote, remote0, offset, deleted, failed, polls,
               submitted, entries, printed, failed_paths, raised, reran,
               chunk_state, processed, slept, poll_wait, bpc>>
analyzeVars == <<file_list, analysis, file_idx, bucket_of, apc>>
savingsVars == <<report_files, report_duplicates, dup_size, duplicate_groups_by_savings, ran>>
planFileVars == <<to_write, plan_text, loaded_paths, fpc>>
recipeVars == <<recipe_all_files, recipe_duplicates, recipe_group, recipe_dupes_to_delete,
                decisions, rpc>>
photoVars == <<hash_groups, photo_group, photo_duplicates, total_dupe_count,
               total_dupe_size, ppc>>
pickVars == <<recipeVars, photoVars>>
toolVars == <<analyzeVars, savingsVars, planFileVars, pickVars>>
vars == <<crawlVars, dedupeVars, batchVars, toolVars>>

(* analyze_files at rest. *)
AnalyzeIdle ==
    /\ file_list = <<>>
    /\ analysis = <<>>
    /\ file_idx = 1
    /\ bucket_of = <<>>
    /\ apc = "done"

(* The savings computations at rest. *)
SavingsIdle ==
    /\ report_files = <<>>
    /\ report_duplicates = <<>>
    /\ dup_size = 0
    /\ duplicate_groups_by_savings = <<>>
    /\ ran = {}

(* No plan file under way. *)
PlanFileIdle ==
    /\ to_write = <<>>
    /\ plan_text = <<>>
    /\ loaded_paths = <<>>
    /\ fpc = "done"

(* find-recipe-dupes.py at rest. *)
RecipeIdle ==
    /\ recipe_all_files = <<>>
    /\ recipe_duplicates = <<>>
    /\ recipe_group = 1
    /\ recipe_dupes_to_delete = <<>>
    /\ decisions = <<>>
    /\ rpc = "done"

(* analyze_duplicates of find-photo-dupes.py at rest. *)
PhotoIdle ==
    /\ hash_groups = <<>>
    /\ photo_group = 1
    /\ photo_duplicates = <<>>
    /\ total_dupe_count = 0
    /\ total_dupe_size = 0
    /\ ppc = "done"

PickIdle == RecipeIdle /\ PhotoIdle

ToolsIdle == AnalyzeIdle /\ SavingsIdle /\ PlanFileIdle /\ PickIdle

(* The deleters at rest, for the specifications of the other subsystems. *)
BatchIdle ==
    /\ deleter = "batch_delete_fast"
    /\ plan = <<>>
    /\ batch_size = 1
    /\ remote = {}
    /\ remote0 = {}
    /\ offset = 0
    /\ deleted = 0
    /\ failed = 0
    /\ polls = 0
    /\ submitted = <<>>
    /\ entries = <<>>
    /\ printed = <<>>
    /\ failed_paths = <<>>
    /\ raised = "none"
    /\ reran = FALSE
    /\ chunk_state = <<>>
    /\ processed = <<>>
    /\ slept = <<>>
    /\ poll_wait = 0
    /\ bpc = "done"

(***************************************************************************)
(* The PageFetcher (dbx.files_list_folder / files_list_folder_continue).   *)
(* Page k carries the cursor k; continuing from cursor k yields page k+1.  *)
(* Continuing from the cursor of the last page yields an empty page with   *)
(* has_more false.  Cursors are non-empty strings in the Dropbox API, so   *)
(* every cursor is truthy (a positive number here).                        *)
(***************************************************************************)
Kinds == {"file", "folder"}

RECURSIVE SeqsUpTo(_, _)
SeqsUpTo(S, n) ==
    IF n = 0 THEN {<<>>}
    ELSE LET shorter == SeqsUpTo(S, n - 1)
         IN  shorter \cup {Append(s, x) : s \in {t \in shorter : Len(t) = n - 1}, x \in S}

(* The listings of exactly n pages that hold at most e entries in all.      *)
RECURSIVE ListingsOf(_, _)
ListingsOf(n, e) ==
    IF n = 0 THEN {<<>>}
    ELSE UNION {{<<page>> \o rest : rest \in ListingsOf(n - 1, e - Len(page))} :
                page \in SeqsUpTo(Kinds, e)}

Listings == UNION {ListingsOf(n, MaxEntries) : n \in 1..MaxPages}

NumPages == Len(pages)

PageEntries(k) ==
    IF k <= NumPages
    THEN [j \in 1..Len(pages[k]) |-> [kind |-> pages[k][j], page |-> k, idx |-> j]]
    ELSE <<>>
PageHasMore(k) == k < NumPages
PageCursor(k) == k
ContinuePage(cursor) == cursor + 1

IsFile(e) == e.kind = "file"
IsFolder(e) == e.kind = "folder"

(* The records an uninterrupted crawl collects from pages a..b.            *)
RECURSIVE FilesOfPages(_, _)
FilesOfPages(a, b) ==
    IF a > b THEN <<>> ELSE SelectSeq(PageEntries(a), IsFile) \o FilesOfPages(a + 1, b)
RECURSIVE FoldersOfPages(_, _)
FoldersOfPages(a, b) ==
    IF a > b THEN <<>> ELSE SelectSeq(PageEntries(a), IsFolder) \o FoldersOfPages(a + 1, b)

(***************************************************************************)
(* The checkpoint store.                                                   *)
(***************************************************************************)
NoCheckpoint ==
    [state |-> "absent", cursor |-> 0, files_count |-> 0, folders_count |-> 0,
     files |-> <<>>, folders |-> <<>>]
(* The file after open(CHECKPOINT_FILE, 'w') truncated it and before       *)
(* json.dump wrote the closing brace: no prefix of the JSON text parses.   *)
PartialCheckpoint ==
    [state |-> "partial", cursor |-> 0, files_count |-> 0, folders_count |-> 0,
     files |-> <<>>, folders |-> <<>>]

save_checkpoint(cursor, files, folders) ==
    [state |-> "valid", cursor |-> cursor, files_count |-> Len(files),
     folders_count |-> Len(folders), files |-> files, folders |-> folders]

load_checkpoint(s) == IF s.state = "valid" THEN s ELSE NoCheckpoint

(* A clear_checkpoint that leaves the file in place. *)
clear_checkpoint_Keeps(s) == s
clear_checkpoint(s) == NoCheckpoint

(* A test that fires at the first multiple of the interval only. *)
CheckpointDue_FirstOnly(n) == n = CHECKPOINT_INTERVAL
(* line 133: len(all_files) % CHECKPOINT_INTERVAL == 0                     *)
CheckpointDue(n) == n % CHECKPOINT_INTERVAL = 0

(* An except block that returns without saving. *)
HandlerCheckpoint_NoSave(s, res, files, folders) == s
(* An except block that saves the cursor it has but none of the lists. *)
HandlerCheckpoint_EmptyLists(s, res, files, folders) ==
    IF res # 0 /\ PageCursor(res) # 0
    THEN save_checkpoint(PageCursor(res), <<>>, <<>>)
    ELSE s
(* An except block that saves whether or not a page was fetched. *)
HandlerCheckpoint_WithoutResult(s, res, files, folders) ==
    save_checkpoint(IF res # 0 THEN PageCursor(res) ELSE 0, files, folders)
(* lines 154-155: what the except block leaves in the store.               *)
HandlerCheckpoint(s, res, files, folders) ==
    IF res # 0 /\ PageCursor(res) # 0
    THEN save_checkpoint(PageCursor(res), files, folders)
    ELSE s

(* lines 517-521: main's test of what get_folder_stats returned.           *)
MainReport(files, folders) ==
    IF files = <<>> /\ folders = <<>> THEN "scan_failed" ELSE "complete"

Resuming == resume_checkpoint.state = "valid"
CrawlPcs == {"request", "entries"}
EndPcs == {"idle", "exit", "failed", "interrupted", "crashed"}

(***************************************************************************)
(* The crawler's steps.                                                    *)
(***************************************************************************)
DedupeIdle ==
    /\ catalog = <<>>
    /\ duplicates = <<>>
    /\ target_folders = <<>>
    /\ policy = "none"
    /\ group = 1
    /\ to_delete = <<>>
    /\ kept = <<>>
    /\ dpc = "done"

CrawlInit ==
    /\ pages \in Listings
    /\ store = NoCheckpoint
    /\ pc = "idle"
    /\ all_files = <<>>
    /\ all_folders = <<>>
    /\ result = 0
    /\ pos = 1
    /\ resume_checkpoint = NoCheckpoint
    /\ loaded = "none"
    /\ crawl = "none"
    /\ outcome = "none"
    /\ fetches = <<>>
    /\ DedupeIdle
    /\ BatchIdle
    /\ ToolsIdle

(* main, lines 485-515, and get_folder_stats up to its first request,      *)
(* lines 98-113: load the checkpoint, ask whether to resume, set up the    *)
(* accumulators.                                                           *)
MainStart ==
    /\ pc \in EndPcs
    /\ loaded' = IF store.state = "partial" THEN "corrupt" ELSE store.state
    /\ \E response \in {"y", "n"} :
         LET checkpoint == load_checkpoint(store)
             resume == checkpoint.state = "valid" /\ response = "y"
         IN  /\ store' = IF checkpoint.state = "valid" /\ ~resume
                         THEN clear_checkpoint(store) ELSE store
             /\ resume_checkpoint' = IF resume THEN checkpoint ELSE NoCheckpoint
             /\ all_files' = IF resume THEN checkpoint.files ELSE <<>>
             /\ all_folders' = IF resume THEN checkpoint.folders ELSE <<>>
    /\ result' = 0
    /\ pos' = 1
    /\ crawl' = "none"
    /\ outcome' = "none"
    /\ fetches' = <<>>
    /\ pc' = "request"
    /\ UNCHANGED <<pages, dedupeVars, batchVars, toolVars>>

(* The page the pending request asks for: lines 114, 117 and 149.          *)
RequestedPage ==
    IF result # 0 THEN ContinuePage(PageCursor(result))
    ELSE IF Resuming THEN ContinuePage(resume_checkpoint.cursor)
    ELSE 1

(* The request in hand as the log of this run records it: the cursor it    *)
(* passes (0 for files_list_folder, which passes none) and its answer.     *)
Fetch(answer) == [cursor |-> RequestedPage - 1, answer |-> answer]

(* The request returns a page. *)
FetchOk ==
    /\ pc = "request"
    /\ result' = RequestedPage
    /\ pos' = 1
    /\ pc' = "entries"
    /\ fetches' = Append(fetches, Fetch("page"))
    /\ UNCHANGED <<pages, store, all_files, all_folders, resume_checkpoint,
                   loaded, crawl, outcome, dedupeVars, batchVars, toolVars>>

(* An except block that asks for the same page again. *)
FetchFail_Retries ==
    /\ pc = "request"
    /\ fetches' = Append(fetches, Fetch("error"))
    /\ UNCHANGED <<pages, store, pc, all_files, all_folders, result, pos,
                   resume_checkpoint, loaded, crawl, outcome,
                   dedupeVars, batchVars, toolVars>>
(* The request raises: the except block, lines 151-157, then main's        *)
(* "scan failed" exit, lines 518-521.                                      *)
FetchFail ==
    /\ pc = "request"
    /\ store' = HandlerCheckpoint(store, result, all_files, all_folders)
    /\ crawl' = "error"
    /\ outcome' = MainReport(<<>>, <<>>)
    /\ pc' = "failed"
    /\ fetches' = Append(fetches, Fetch("error"))
    /\ UNCHANGED <<pages, all_files, all_folders, result, pos,
                   resume_checkpoint, loaded, dedupeVars, batchVars, toolVars>>

(* The request raises and the process dies inside the handler's            *)
(* save_checkpoint, between open(..., 'w') and the end of json.dump.       *)
FetchFailCrash ==
    /\ pc = "request"
    /\ HandlerCheckpoint(store, result, all_files, all_folders) # store
    /\ store' = PartialCheckpoint
    /\ crawl' = "error"
    /\ outcome' = "killed"
    /\ pc' = "crashed"
    /\ fetches' = Append(fetches, Fetch("error"))
    /\ UNCHANGED <<pages, all_files, all_folders, result, pos,
                   resume_checkpoint, loaded, dedupeVars, batchVars, toolVars>>

(* One iteration of the for loop, lines 120-143. *)
ProcessEntry ==
    /\ pc = "entries"
    /\ pos <= Len(PageEntries(result))
    /\ LET entry == PageEntries(result)[pos]
       IN  IF IsFile(entry)
           THEN /\ all_files' = Append(all_files, entry)
                /\ all_folders' = all_folders
                /\ store' = IF CheckpointDue(Len(all_files')) /\ PageCursor(result) # 0
                            THEN save_checkpoint(PageCursor(result), all_files', all_folders)
                            ELSE store
           ELSE /\ all_folders' = Append(all_folders, entry)
                /\ all_files' = all_files
                /\ store' = store
    /\ pos' = pos + 1
    /\ UNCHANGED <<pages, pc, result, resume_checkpoint, loaded, crawl,
                   outcome, fetches, dedupeVars, batchVars, toolVars>>

(* The same iteration when the process dies inside save_checkpoint.        *)
ProcessEntryCrash ==
    /\ pc = "entries"
    /\ pos <= Len(PageEntries(result))
    /\ IsFile(PageEntries(result)[pos])
    /\ CheckpointDue(Len(all_files) + 1) /\ PageCursor(result) # 0
    /\ all_files' = Append(all_files, PageEntries(result)[pos])
    /\ store' = PartialCheckpoint
    /\ outcome' = "killed"
    /\ pc' = "crashed"
    /\ UNCHANGED <<pages, all_folders, result, pos, resume_checkpoint,
                   loaded, crawl, fetches, dedupeVars, batchVars, toolVars>>

(* The end of a page with has_more: lines 145-149, up to the request.      *)
NextPage ==
    /\ pc = "entries"
    /\ pos > Len(PageEntries(result))
    /\ PageHasMore(result)
    /\ pc' = "request"
    /\ UNCHANGED <<pages, store, all_files, all_folders, result, pos,
                   resume_checkpoint, loaded, crawl, outcome, fetches,
                   dedupeVars, batchVars, toolVars>>

(* The end of the last page: lines 145-146 and 159-165, then main's test   *)
(* of the returned lists, lines 517-521.                                   *)
Finish ==
    /\ pc = "entries"
    /\ pos > Len(PageEntries(result))
    /\ ~PageHasMore(result)
    /\ store' = clear_checkpoint(store)
    /\ crawl' = "ok"
    /\ outcome' = MainReport(all_files, all_folders)
    /\ pc' = "exit"
    /\ UNCHANGED <<pages, all_files, all_folders, result, pos,
                   resume_checkpoint, loaded, fetches, dedupeVars, batchVars, toolVars>>

(* KeyboardInterrupt: it is no Exception, so the except block of line 151  *)
(* does not run; lines 553-555 print "Cancelled by user" and exit.         *)
Interrupt ==
    /\ pc \in CrawlPcs
    /\ outcome' = "cancelled"
    /\ pc' = "interrupted"
    /\ UNCHANGED <<pages, store, all_files, all_folders, result, pos,
                   resume_checkpoint, loaded, crawl, fetches, dedupeVars, batchVars, toolVars>>

CrawlNext ==
    \/ MainStart
    \/ FetchOk
    \/ FetchFail
    \/ FetchFailCrash
    \/ ProcessEntry
    \/ ProcessEntryCrash
    \/ NextPage
    \/ Finish
    \/ Interrupt

CrawlSpec == CrawlInit /\ [][CrawlNext]_vars

(***************************************************************************)
(* Properties of the crawler, checked under CrawlSpec.                     *)
(***************************************************************************)
(* The first page this run asked for. *)
FirstPage == IF Resuming THEN ContinuePage(resume_checkpoint.cursor) ELSE 1

(* C1: resume correctness. A crawl that completes, whatever interruptions  *)
(* and resumes came before, ends with the file list of an uninterrupted    *)
(* crawl over the same pages: nothing missing, nothing twice.              *)
C1_ResumeCorrectness ==
    (pc = "exit" /\ crawl = "ok") => all_files = FilesOfPages(1, NumPages)

(* C2: every persisted checkpoint is page-aligned: its lists hold exactly  *)
(* the records of the pages up to the one that returned its cursor.        *)
C2_PageAligned ==
    store.state = "valid" =>
        /\ store.files = FilesOfPages(1, store.cursor)
        /\ store.folders = FoldersOfPages(1, store.cursor)

(* C3: when a request fails after k >= 1 pages were processed in this run, *)
(* the store holds a checkpoint with the cursor of page k and with the     *)
(* restored lists followed by the records of the pages of this run.        *)
C3_HandlerCheckpoint ==
    (pc = "failed" /\ result # 0) =>
        store = save_checkpoint(
                    PageCursor(result),
                    resume_checkpoint.files \o FilesOfPages(FirstPage, result),
                    resume_checkpoint.folders \o FoldersOfPages(FirstPage, result))
C3_Witness ==
    /\ pc = "failed"
    /\ Resuming
    /\ result # 0
    /\ Len(store.files) > Len(resume_checkpoint.files)
    /\ store.folders # <<>>

(* C4 as claimed: after every failed crawl whose checkpoint write did not  *)
(* fail, a loadable checkpoint exists.                                     *)
C4_AlwaysResumable ==
    pc = "failed" => load_checkpoint(store).state = "valid"
(* C4 as amended: after a failed crawl a loadable checkpoint exists when   *)
(* at least one page was fetched in this run or the run was resuming; a    *)
(* fresh crawl whose first request fails writes nothing.                   *)
C4_ResumableAfterProgress ==
    (pc = "failed" /\ (result # 0 \/ Resuming)) =>
        load_checkpoint(store).state = "valid"
C4_Witness ==
    /\ pc = "failed"
    /\ ~Resuming
    /\ result # 0
    /\ load_checkpoint(store).cursor = PageCursor(result)

(* C5: checkpoint atomicity. The store never holds a half-written          *)
(* checkpoint: it holds a complete one or none.                            *)
C5_Atomic == store.state \in {"absent", "valid"}

(* C6: a run that met an unparseable checkpoint file does not go on to the *)
(* crawl as a run that met no checkpoint does.                             *)
C6_CorruptionSurfaced == loaded = "corrupt" => pc \notin CrawlPcs

(* C7: a successful crawl leaves no checkpoint in the store, whatever was  *)
(* there before, and a crawl never empties the store in any other step.    *)
C7_ClearedOnSuccessOnly ==
    [][/\ (crawl' = "ok" /\ crawl # "ok") => store'.state = "absent"
       /\ (pc \in CrawlPcs /\ store.state # "absent" /\ store'.state = "absent")
              => crawl' = "ok"]_vars
C7_Witness ==
    /\ pc = "exit"
    /\ crawl = "ok"
    /\ Resuming
    /\ store = NoCheckpoint

(* C8: each time the file count reaches a multiple of the interval, the    *)
(* step that appended the file leaves in the store a checkpoint with the   *)
(* current page's cursor and the full accumulated lists (unless the        *)
(* process died inside the write).                                         *)
C8_PeriodicCheckpoint ==
    [][(/\ pc = "entries"
        /\ pc' # "crashed"
        /\ Len(all_files') = Len(all_files) + 1
        /\ Len(all_files') % CHECKPOINT_INTERVAL = 0)
       => store' = save_checkpoint(PageCursor(result), all_files', all_folders')]_vars
C8_Witness ==
    /\ pc = "entries"
    /\ ~Resuming
    /\ Len(all_files) = 2 * CHECKPOINT_INTERVAL
    /\ store = save_checkpoint(PageCursor(result), all_files, all_folders)

(* C31: the crawler never retries a fetch. Within one run no cursor is     *)
(* passed twice, a request that failed is the last of the run, no request  *)
(* follows a page with has_more false, and a crawl that started fresh and  *)
(* completed returns the file records of all pages in page order, one      *)
(* record for each file entry served.                                      *)
C31_NoRetry ==
    /\ \A i, j \in 1..Len(fetches) : fetches[i].cursor = fetches[j].cursor => i = j
    /\ \A i \in 1..Len(fetches) : fetches[i].answer = "error" => i = Len(fetches)
    /\ \A i \in 1..Len(fetches) :
          (fetches[i].answer = "page" /\ ~PageHasMore(fetches[i].cursor + 1))
              => /\ i = Len(fetches)
                 /\ pc # "request"
    /\ (pc = "exit" /\ crawl = "ok" /\ ~Resuming) =>
          /\ all_files = FilesOfPages(1, NumPages)
          /\ Len(fetches) = NumPages
C31_Witness ==
    /\ pc = "failed"
    /\ Len(fetches) = 3
    /\ fetches[3].answer = "error"
    /\ Len(all_files) >= 2

(* C32: when the first request of a resumed crawl fails, the store holds   *)
(* the checkpoint the run was resumed from, unchanged: the same resume can *)
(* be made again.                                                          *)
C32_ResumeFailureKeepsCheckpoint ==
    (pc = "failed" /\ Resuming /\ Len(fetches) = 1) =>
        /\ store = resume_checkpoint
        /\ load_checkpoint(store) = resume_checkpoint
C32_Witness ==
    /\ pc = "failed"
    /\ Resuming
    /\ Len(fetches) = 1
    /\ store.files # <<>>

(* C33: main reports "scan failed" exactly when get_folder_stats hit an    *)
(* error; a crawl that completed, the one over an empty account included,  *)
(* is reported as complete.                                                *)
C33_ScanFailedIffError ==
    pc \in {"exit", "failed"} => (outcome = "scan_failed" <=> crawl = "error")

(***************************************************************************)
(* Strings as smart-dedupe.py handles them: a path is a sequence of        *)
(* characters, compared by code point as Python's sorted does.             *)
(***************************************************************************)
CodePoint ==
    (" " :> 32) @@ ("-" :> 45) @@ ("." :> 46) @@ ("/" :> 47) @@ ("C" :> 67) @@
    ("P" :> 80) @@ ("U" :> 85) @@ ("a" :> 97) @@ ("b" :> 98) @@
    ("c" :> 99) @@ ("d" :> 100) @@ ("e" :> 101) @@ ("g" :> 103) @@
    ("h" :> 104) @@ ("i" :> 105) @@ ("l" :> 108) @@ ("m" :> 109) @@
    ("n" :> 110) @@ ("o" :> 111) @@ ("p" :> 112) @@ ("r" :> 114) @@
    ("s" :> 115) @@ ("t" :> 116) @@ ("v" :> 118) @@ ("x" :> 120) @@
    ("y" :> 121) @@ ("z" :> 122) @@ ("é" :> 233)

(* '/Camera Uploads/' *)
CameraUploads == <<"/", "C", "a", "m", "e", "r", "a", " ", "U", "p", "l", "o", "a", "d", "s", "/">>
(* '/personal/recipes/' *)
PersonalRecipes == <<"/", "p", "e", "r", "s", "o", "n", "a", "l", "/", "r", "e", "c", "i", "p", "e", "s", "/">>
(* '/gallery/' *)
Gallery == <<"/", "g", "a", "l", "l", "e", "r", "y", "/">>
(* '/dashcord/' *)
Dashcord == <<"/", "d", "a", "s", "h", "c", "o", "r", "d", "/">>
(* '/dashcord-dev/' *)
DashcordDev == <<"/", "d", "a", "s", "h", "c", "o", "r", "d", "-", "d", "e", "v", "/">>
(* '/' *)
Root == <<"/">>

(* The paths a catalog draws its files from, in the order a crawl listed    *)
(* them.                                                                   *)
PathList ==
    <<PersonalRecipes \o <<"b">>,
      CameraUploads \o <<"b">>,
      <<"/", "P", "h", "o", "t", "o", "s", "/", "a">>,
      CameraUploads \o <<"a">>,
      Dashcord \o <<"a">>,
      PersonalRecipes \o <<"g", "a", "l", "l", "e", "r", "y", "/", "a">>>>

TargetLists == {<<>>, <<CameraUploads>>, <<PersonalRecipes>>, <<Dashcord, DashcordDev>>, <<Root>>}

(* Content hashes; "" stands for an absent hash (None). *)
Hashes == {"", "h1", "h2"}

Reverse(s) == [i \in 1..Len(s) |-> s[Len(s) + 1 - i]]

(* The subsequences of s. *)
RECURSIVE SubSeqs(_)
SubSeqs(s) ==
    IF s = <<>> THEN {<<>>}
    ELSE LET rest == SubSeqs(Tail(s))
         IN  rest \cup {<<Head(s)>> \o t : t \in rest}

(* The catalogs: at most MaxFiles files with pairwise different paths, in  *)
(* listing order or in the opposite order, each with any hash or none.     *)
PathOrders ==
    {t \in SubSeqs(PathList) \cup SubSeqs(Reverse(PathList)) : Len(t) <= MaxFiles}

Catalogs ==
    UNION {{[i \in 1..Len(t) |-> [path |-> t[i], hash |-> hs[i]]] :
              hs \in [1..Len(t) -> Hashes]} : t \in PathOrders}

Range(s) == {s[i] : i \in 1..Len(s)}

(* str.startswith *)
StartsWith(p, prefix) ==
    Len(prefix) <= Len(p) /\ SubSeq(p, 1, Len(prefix)) = prefix

(* sub in p *)
Contains(p, sub) ==
    \E i \in 0..(Len(p) - Len(sub)) : SubSeq(p, i + 1, i + Len(sub)) = sub

(* a < b for two str values *)
LexLess(a, b) ==
    \E i \in 1..(Len(a) + 1) :
        /\ \A j \in 1..(i - 1) : j <= Len(b) /\ a[j] = b[j]
        /\ \/ i = Len(a) + 1 /\ Len(b) >= i
           \/ i <= Len(a) /\ i <= Len(b) /\ CodePoint[a[i]] < CodePoint[b[i]]

RECURSIVE InsertSorted(_, _)
InsertSorted(x, s) ==
    IF s = <<>> THEN <<x>>
    ELSE IF LexLess(x, Head(s)) THEN <<x>> \o s
    ELSE <<Head(s)>> \o InsertSorted(x, Tail(s))

(* A sorted that returns the list as it was given. *)
sorted_AsListed(s) == s
(* sorted(paths) *)
RECURSIVE sorted(_)
sorted(s) ==
    IF s = <<>> THEN <<>> ELSE InsertSorted(s[Len(s)], sorted(SubSeq(s, 1, Len(s) - 1)))

(* analyze_files, catalog-dropbox.py lines 225-239: the hashes in order of *)
(* first appearance and, for each, the paths that carry it.                *)
RECURSIVE HashOrder(_)
HashOrder(files) ==
    IF files = <<>> THEN <<>>
    ELSE LET before == HashOrder(SubSeq(files, 1, Len(files) - 1))
             h == files[Len(files)].hash
         IN  IF h = "" \/ h \in Range(before) THEN before ELSE Append(before, h)

PathsWithHash(files, h) ==
    LET same == SelectSeq(files, LAMBDA f : f.hash = h)
    IN  [i \in 1..Len(same) |-> same[i].path]

(* A grouping that skips the filter of lines 237-239. *)
analysis_duplicates_Unfiltered(files) ==
    [i \in 1..Len(HashOrder(files)) |->
       [hash |-> HashOrder(files)[i],
        paths |-> PathsWithHash(files, HashOrder(files)[i])]]
analysis_duplicates(files) ==
    LET all == [i \in 1..Len(HashOrder(files)) |->
                  [hash |-> HashOrder(files)[i],
                   paths |-> PathsWithHash(files, HashOrder(files)[i])]]
    IN  SelectSeq(all, LAMBDA g : Len(g.paths) > 1)

(* smart-dedupe.py lines 32 and 45: any(p.startswith(tf) for tf in target_folders) *)
InTarget_EmptyMatchesAll(p, targets) ==
    targets = <<>> \/ \E i \in 1..Len(targets) : StartsWith(p, targets[i])
InTarget(p, targets) ==
    \E i \in 1..Len(targets) : StartsWith(p, targets[i])

(* A policy that takes the first path outside Camera Uploads as listed. *)
camera_uploads_preference_FirstListed(paths) ==
    LET non_camera == SelectSeq(paths, LAMBDA p : ~StartsWith(p, CameraUploads))
    IN  IF non_camera # <<>> THEN non_camera[1] ELSE paths[1]
(* A policy that keeps the smallest path wherever it is. *)
camera_uploads_preference_SmallestOfAll(paths) == sorted(paths)[1]
(* The keep policies of smart-dedupe.py. *)
camera_uploads_preference(paths) ==
    LET non_camera == SelectSeq(paths, LAMBDA p : ~StartsWith(p, CameraUploads))
    IN  IF non_camera # <<>> THEN sorted(non_camera)[1] ELSE sorted(paths)[1]

recipes_preference(paths) ==
    LET recipe_paths == SelectSeq(paths, LAMBDA p : StartsWith(p, PersonalRecipes))
        gallery_paths == SelectSeq(recipe_paths, LAMBDA p : Contains(p, Gallery))
    IN  IF recipe_paths = <<>> THEN sorted(paths)[1]
        ELSE IF gallery_paths # <<>> THEN sorted(gallery_paths)[1]
        ELSE sorted(recipe_paths)[1]

(* A policy that names one fixed path as the keeper. *)
dashcord_preference_FixedKeeper(paths) == Dashcord \o <<"a">>
dashcord_preference(paths) ==
    LET dashcord_paths == SelectSeq(paths, LAMBDA p : StartsWith(p, Dashcord))
    IN  IF dashcord_paths = <<>> THEN sorted(paths)[1] ELSE sorted(dashcord_paths)[1]

Policies ==
    {"none", "camera_uploads_preference", "recipes_preference", "dashcord_preference",
     "member"}

(* Lines 37-41: the paths keep_path can be. "member" is a keep_preference  *)
(* about which only this is known: it returns one of the paths it is given.*)
KeepPaths(pol, paths) ==
    IF pol = "none" THEN {sorted(paths)[1]}
    ELSE IF pol = "camera_uploads_preference" THEN {camera_uploads_preference(paths)}
    ELSE IF pol = "recipes_preference" THEN {recipes_preference(paths)}
    ELSE IF pol = "dashcord_preference" THEN {dashcord_preference(paths)}
    ELSE Range(paths)

(* Lines 38 and 41: the list the keep policy is given, the full group. *)
KeepArgument_RelevantOnly(paths, relevant_paths) == relevant_paths
KeepArgument(paths, relevant_paths) == paths

(* Lines 44-46: the paths of one group that go into to_delete. *)
Planned_KeptToo(paths, keep_path, targets) ==
    SelectSeq(paths, LAMBDA path : InTarget(path, targets))
Planned_OutOfTargetToo(paths, keep_path, targets) ==
    SelectSeq(paths, LAMBDA path : path # keep_path)
Planned(paths, keep_path, targets) ==
    SelectSeq(paths, LAMBDA path : path # keep_path /\ InTarget(path, targets))

CrawlIdle ==
    /\ pages = <<<<>>>>
    /\ store = NoCheckpoint
    /\ pc = "idle"
    /\ all_files = <<>>
    /\ all_folders = <<>>
    /\ result = 0
    /\ pos = 1
    /\ resume_checkpoint = NoCheckpoint
    /\ loaded = "none"
    /\ crawl = "none"
    /\ outcome = "none"
    /\ fetches = <<>>

DedupeInit ==
    /\ catalog \in Catalogs
    /\ duplicates = analysis_duplicates(catalog)
    /\ target_folders \in TargetLists
    /\ policy \in Policies
    /\ group = 1
    /\ to_delete = <<>>
    /\ kept = <<>>
    /\ dpc = "loop"
    /\ CrawlIdle
    /\ BatchIdle
    /\ ToolsIdle

(* One iteration of the loop over duplicates.items(), lines 27-46. *)
DedupeGroup ==
    /\ dpc = "loop"
    /\ group <= Len(duplicates)
    /\ LET paths == duplicates[group].paths
           relevant_paths == SelectSeq(paths, LAMBDA p : InTarget(p, target_folders))
       IN  IF Len(paths) < 2 \/ relevant_paths = <<>>
           THEN UNCHANGED <<to_delete, kept>>
           ELSE \E keep_path \in KeepPaths(policy, KeepArgument(paths, relevant_paths)) :
                  /\ to_delete' = to_delete \o Planned(paths, keep_path, target_folders)
                  /\ kept' = Append(kept, [hash |-> duplicates[group].hash,
                                           path |-> keep_path])
    /\ group' = group + 1
    /\ UNCHANGED <<catalog, duplicates, target_folders, policy, dpc, crawlVars, batchVars, toolVars>>

(* The loop is exhausted: return to_delete, line 48. *)
DedupeReturn ==
    /\ dpc = "loop"
    /\ group > Len(duplicates)
    /\ dpc' = "done"
    /\ UNCHANGED <<catalog, duplicates, target_folders, policy, group, to_delete, kept, crawlVars, batchVars, toolVars>>

DedupeNext ==
    \/ DedupeGroup
    \/ DedupeReturn

DedupeSpec == DedupeInit /\ [][DedupeNext]_vars

(***************************************************************************)
(* Properties of smart_dedupe, checked under DedupeSpec.                   *)
(***************************************************************************)
NoRepeats(s) == \A i, j \in 1..Len(s) : s[i] = s[j] => i = j

(* C9: plan exclusivity. No path is in the plan twice, and the plan holds  *)
(* the kept path of no group.                                              *)
C9_PlanExclusive ==
    /\ NoRepeats(to_delete)
    /\ \A i \in 1..Len(kept) : kept[i].path \notin Range(to_delete)
C9_Witness ==
    /\ dpc = "done"
    /\ policy = "member"
    /\ Len(kept) = 2
    /\ Len(to_delete) = 2

(* C10 as claimed: with no target prefixes every path matches, so of each  *)
(* duplicate group all paths but the kept one are in the returned plan.    *)
C10_EmptyMatchesAll ==
    (dpc = "done" /\ target_folders = <<>>) =>
        \A g \in Range(duplicates) :
            \E keep_path \in Range(g.paths) :
                \A p \in Range(g.paths) : p # keep_path => p \in Range(to_delete)
(* C10 as amended: with no target prefixes no path matches, so every group *)
(* is skipped, no path is kept by a policy and the returned plan is empty. *)
C10_EmptyMatchesNothing ==
    target_folders = <<>> => (to_delete = <<>> /\ kept = <<>>)
C10_Witness ==
    /\ dpc = "done"
    /\ target_folders = <<>>
    /\ Len(duplicates) = 2
    /\ to_delete = <<>>

(* The paths of the duplicate group with hash h. *)
GroupPaths(h) == (CHOOSE g \in Range(duplicates) : g.hash = h).paths

(* The orders in which the paths of s can be listed (s repeats no path). *)
RECURSIVE Orders(_)
Orders(s) ==
    IF s = <<>> THEN {<<>>}
    ELSE UNION {{<<s[i]>> \o t :
                   t \in Orders(SubSeq(s, 1, i - 1) \o SubSeq(s, i + 1, Len(s)))} :
                i \in 1..Len(s)}

(* C11: for a non-empty target list, a path is in the returned plan if and *)
(* only if it is in a duplicate group of at least two paths, starts with a *)
(* target prefix and is not the path kept for its group.                   *)
C11_PlanMembership ==
    (dpc = "done" /\ target_folders # <<>>) =>
        \A f \in Range(catalog) :
            f.path \in Range(to_delete) <=>
                /\ \E g \in Range(duplicates) : f.path \in Range(g.paths) /\ Len(g.paths) >= 2
                /\ \E t \in Range(target_folders) : StartsWith(f.path, t)
                /\ \A k \in Range(kept) : k.path # f.path
C11_Witness ==
    /\ dpc = "done"
    /\ Len(target_folders) = 2
    /\ Len(to_delete) = 1
    /\ \E g \in Range(duplicates) :
         \E p \in Range(g.paths) :
            /\ p \notin Range(to_delete)
            /\ \A k \in Range(kept) : k.path # p

(* C12: the keep policy is given the full group, so the kept path is the   *)
(* policy's choice among all paths of the group, and when that path is     *)
(* outside the target folders every target-matching path of the group is   *)
(* in the plan.                                                            *)
C12_KeepOnFullGroup ==
    \A k \in Range(kept) :
        /\ k.path \in KeepPaths(policy, GroupPaths(k.hash))
        /\ ~(\E t \in Range(target_folders) : StartsWith(k.path, t)) =>
              \A p \in Range(GroupPaths(k.hash)) :
                 (\E t \in Range(target_folders) : StartsWith(p, t)) =>
                     p \in Range(to_delete)
C12_Witness ==
    /\ dpc = "done"
    /\ policy = "camera_uploads_preference"
    /\ target_folders = <<CameraUploads>>
    /\ \E k \in Range(kept) :
         /\ ~StartsWith(k.path, CameraUploads)
         /\ Len(GroupPaths(k.hash)) = 3
         /\ Len(to_delete) = 2

(* C13: with no keep policy the kept path of a group is its smallest path  *)
(* in lexicographic order, in whatever order the group lists its paths;    *)
(* of "/z.txt" and "/a.txt" it is "/a.txt".                                *)
C13_DefaultKeepsSmallest ==
    /\ policy = "none" =>
          \A k \in Range(kept) :
             \A p \in Range(GroupPaths(k.hash)) : p = k.path \/ LexLess(k.path, p)
    /\ KeepPaths("none", <<<<"/", "z", ".", "t", "x", "t">>, <<"/", "a", ".", "t", "x", "t">>>>)
          = {<<"/", "a", ".", "t", "x", "t">>}
C13_Witness ==
    /\ dpc = "done"
    /\ policy = "none"
    /\ \E k \in Range(kept) :
         /\ Len(GroupPaths(k.hash)) = 3
         /\ k.path = GroupPaths(k.hash)[3]

(* C14: the four built-in policies depend on the set of paths only: the    *)
(* path kept for a group is the path the policy returns for every order in *)
(* which the group's paths can be listed.                                  *)
C14_PolicyOrderIndependent ==
    policy # "member" =>
        \A k \in Range(kept) :
           \A listed \in Orders(GroupPaths(k.hash)) : KeepPaths(policy, listed) = {k.path}
C14_Witness ==
    /\ dpc = "done"
    /\ policy = "camera_uploads_preference"
    /\ \E k \in Range(kept) :
         /\ Len(GroupPaths(k.hash)) = 4
         /\ k.path # GroupPaths(k.hash)[1]
         /\ k.path # GroupPaths(k.hash)[4]

(* C15: duplicate grouping. Two files are in one group if and only if      *)
(* their hashes are equal and present; a file without a hash is in no      *)
(* group; every group has at least two paths; no hash has two groups.      *)
C15_DuplicateGrouping ==
    /\ \A i, j \in 1..Len(catalog) :
          i # j =>
             ((\E g \in Range(duplicates) :
                  catalog[i].path \in Range(g.paths) /\ catalog[j].path \in Range(g.paths))
              <=> (catalog[i].hash = catalog[j].hash /\ catalog[i].hash # ""))
    /\ \A i \in 1..Len(catalog) :
          catalog[i].hash = "" =>
             \A g \in Range(duplicates) : catalog[i].path \notin Range(g.paths)
    /\ \A g \in Range(duplicates) : Len(g.paths) >= 2 /\ NoRepeats(g.paths)
    /\ \A a, b \in 1..Len(duplicates) : duplicates[a].hash = duplicates[b].hash => a = b
C15_Witness ==
    /\ Len(catalog) = 4
    /\ Len(duplicates) = 1
    /\ Len(duplicates[1].paths) = 2
    /\ \E i, j \in 1..Len(catalog) : catalog[i].hash = "" /\ catalog[j].hash = "h2"
    /\ dpc = "done"

(* The policies smart-dedupe.py defines: the default of line 41 and the    *)
(* three functions of lines 50-88.                                         *)
BuiltInPolicies ==
    {"none", "camera_uploads_preference", "recipes_preference", "dashcord_preference"}

(* smart_dedupe run with one of the policies of smart-dedupe.py. *)
BuiltInPolicyInit == DedupeInit /\ policy \in BuiltInPolicies

BuiltInPolicySpec == BuiltInPolicyInit /\ [][DedupeNext]_vars

(* C36: one copy of every duplicated content survives the plan. The        *)
(* built-in policy in use returns, for every group, one of the paths of    *)
(* the group; the path kept for a group is one of the group's paths; and   *)
(* of every group at least one path is not in the plan.                    *)
C36_OneCopySurvives ==
    /\ \A g \in Range(duplicates) :
          /\ KeepPaths(policy, g.paths) \subseteq Range(g.paths)
          /\ Range(g.paths) \ Range(to_delete) # {}
    /\ \A k \in Range(kept) :
          /\ k.path \in Range(GroupPaths(k.hash))
          /\ k.path \in Range(GroupPaths(k.hash)) \ Range(to_delete)
C36_Witness ==
    /\ dpc = "done"
    /\ policy = "dashcord_preference"
    /\ target_folders = <<Root>>
    /\ Len(duplicates) = 2
    /\ Len(to_delete) = 2
    /\ \E k \in Range(kept) : ~StartsWith(k.path, Dashcord)

(* The smallest path of the set S in lexicographic order. *)
Smallest(S) == CHOOSE p \in S : \A q \in S : q = p \/ LexLess(p, q)
InCameraUploads(p) == StartsWith(p, CameraUploads)

(* C38: camera_uploads_preference keeps the smallest path outside          *)
(* '/Camera Uploads/' when the group has one and the smallest path of the  *)
(* group when it has none; with the target ['/Camera Uploads/'] the plan   *)
(* holds, of a group with a copy elsewhere, exactly its Camera Uploads     *)
(* paths, and of a group inside Camera Uploads all paths but the smallest. *)
C38_CameraUploadsPreference ==
    policy = "camera_uploads_preference" =>
        /\ \A k \in Range(kept) :
              LET all == Range(GroupPaths(k.hash))
                  outside == {p \in all : ~InCameraUploads(p)}
              IN  /\ outside # {} => k.path = Smallest(outside)
                  /\ InCameraUploads(k.path) => (outside = {} /\ k.path = Smallest(all))
        /\ (dpc = "done" /\ target_folders = <<CameraUploads>>) =>
              \A g \in Range(duplicates) :
                 LET all == Range(g.paths)
                     inside == {p \in all : InCameraUploads(p)}
                 IN  Range(to_delete) \cap all =
                        IF inside # all THEN inside ELSE all \ {Smallest(all)}
C38_Witness ==
    /\ dpc = "done"
    /\ policy = "camera_uploads_preference"
    /\ target_folders = <<CameraUploads>>
    /\ Len(duplicates) = 1
    /\ Len(duplicates[1].paths) = 4
    /\ Len(to_delete) = 2
    /\ \E k \in Range(kept) : k.path = <<"/", "P", "h", "o", "t", "o", "s", "/", "a">>

(***************************************************************************)
(* The batch deleters: scripts/batch-delete-fast.py (batch_delete_fast,    *)
(* process_batch_result) and scripts/batch-delete.py (batch_delete).       *)
(***************************************************************************)

(* The waits of batch_delete_fast, in seconds: before every poll (line 71), *)
(* between two chunks (line 88) and after an ApiError (line 94).           *)
POLL_INTERVAL == 1
BATCH_DELAY == 2
ERROR_BACKOFF == 5

(* The paths a plan file lists, in order. *)
PlanList == <<"/a", "/b", "/c", "/d">>

Plans == {SubSeq(PlanList, 1, n) : n \in 0..MaxPlan}

Deleters == {"batch_delete_fast", "batch_delete"}

Min(a, b) == IF a < b THEN a ELSE b

(* batch-delete-fast.py:48, paths[i:i+batch_size], for the 0-based offset k. *)
Batch_OneMore(paths, k, size) == SubSeq(paths, k + 1, Min(k + size + 1, Len(paths)))
Batch(paths, k, size) == SubSeq(paths, k + 1, Min(k + size, Len(paths)))

(* batch-delete-fast.py:45 *)
num_batches(total, size) == (total + size - 1) \div size

(* batch-delete-fast.py:49 *)
batch_num(k, size) == (k \div size) + 1

(* What the API answers for one path: a present path is deleted or refused *)
(* for some reason, an absent path is refused as not found.                *)
EntryTags(path, present) ==
    IF path \in present THEN {"success", "other_failure"} ELSE {"not_found"}

(* The complete results files_delete_batch (or its check) can return for a *)
(* chunk: one entry per submitted path, in order.                          *)
BatchResults(batch, present) ==
    {[k \in 1..Len(batch) |-> [path |-> batch[k], tag |-> f[k]]] :
        f \in {g \in [1..Len(batch) -> {"success", "other_failure", "not_found"}] :
                 \A k \in 1..Len(batch) : g[k] \in EntryTags(batch[k], present)}}

(* process_batch_result, lines 104-110: the entries that add one to its     *)
(* deleted.                                                                *)
CountsAsDeleted_SuccessOnly(tag) == tag = "success"
CountsAsDeleted(tag) == tag \in {"success", "not_found"}

(* process_batch_result, lines 100-113: the count it returns. *)
RECURSIVE process_batch_result(_)
process_batch_result(batch_result) ==
    IF batch_result = <<>> THEN 0
    ELSE (IF CountsAsDeleted(Head(batch_result).tag) THEN 1 ELSE 0)
         + process_batch_result(Tail(batch_result))

(* One output line: its kind, the path it names ("" when it names none)    *)
(* and the number of the chunk it was written under.                       *)
Line(kind, path, num) == [kind |-> kind, path |-> path, batch_num |-> num]

(* process_batch_result, lines 109 and 112: the lines it prints. *)
RECURSIVE ResultLines(_, _)
ResultLines(batch_result, num) ==
    IF batch_result = <<>> THEN <<>>
    ELSE LET e == Head(batch_result)
             rest == ResultLines(Tail(batch_result), num)
         IN  IF e.tag = "not_found" THEN <<Line("already_deleted", e.path, num)>> \o rest
             ELSE IF e.tag = "other_failure" THEN <<Line("error", e.path, num)>> \o rest
             ELSE rest

Deleted(batch_result) == {batch_result[k].path : k \in {j \in 1..Len(batch_result) : batch_result[j].tag = "success"}}

(* Where a script starts: the loops of lines 47 (batch-delete-fast.py) and *)
(* 44 (batch-delete.py) run no iteration on an empty plan.                 *)
StartPc(d, paths) ==
    IF paths = <<>> THEN "done"
    ELSE IF d = "batch_delete_fast" THEN "submit" ELSE "delete"

BatchInit ==
    /\ deleter \in Deleters
    /\ plan \in Plans
    /\ batch_size \in 1..MaxBatchSize
    /\ remote \in SUBSET Range(plan)
    /\ remote0 = remote
    /\ offset = 0
    /\ deleted = 0
    /\ failed = 0
    /\ polls = 0
    /\ submitted = <<>>
    /\ entries = <<>>
    /\ printed = <<>>
    /\ failed_paths = <<>>
    /\ raised = "none"
    /\ reran = FALSE
    /\ chunk_state = <<>>
    /\ processed = <<>>
    /\ slept = <<>>
    /\ poll_wait = 0
    /\ bpc = StartPc(deleter, plan)
    /\ CrawlIdle
    /\ DedupeIdle
    /\ ToolsIdle

(* The chunk in hand, line 48. *)
batch == Batch(plan, offset, batch_size)

chunkLog == <<chunk_state, processed, slept>>

(* The state of the chunk in hand becomes st. *)
SetLast(states, st) == [states EXCEPT ![Len(states)] = st]

(* Lines 87-88: the wait after a chunk that is not the last one. *)
DelayAfter_NotBeforeLast(num, total) ==
    IF num + 1 < num_batches(total, batch_size) THEN BATCH_DELAY ELSE 0
DelayAfter(num, total) == IF num < num_batches(total, batch_size) THEN BATCH_DELAY ELSE 0

(* The next iteration of the loop of line 47, or the return of line 98. *)
NextChunk ==
    /\ offset' = offset + batch_size
    /\ polls' = 0
    /\ bpc' = IF offset + batch_size < Len(plan) THEN "submit" ELSE "done"

(* Lines 64 and 76, then 84-88: a complete result is processed. *)
Completed(batch_result) ==
    /\ deleted' = deleted + process_batch_result(batch_result)
    /\ remote' = remote \ Deleted(batch_result)
    /\ entries' = entries \o batch_result
    /\ printed' = printed \o ResultLines(batch_result, batch_num(offset, batch_size))
    /\ processed' = LET num == batch_num(offset, batch_size)
                    IN  IF Len(processed) < num THEN Append(processed, 1)
                        ELSE [processed EXCEPT ![num] = @ + 1]
    /\ slept' = Append(slept, DelayAfter(batch_num(offset, batch_size), Len(plan)))
    /\ UNCHANGED <<failed, failed_paths>>
    /\ NextChunk

(* Lines 79-81 and 90-94: the chunk fails as a whole. *)
ChunkFailed(kind) ==
    /\ failed' = failed + Len(batch)
    /\ failed_paths' = failed_paths \o batch
    /\ printed' = Append(printed, Line(kind, "", batch_num(offset, batch_size)))
    /\ slept' = Append(slept, IF kind = "batch_api_error" THEN ERROR_BACKOFF
                              ELSE DelayAfter(batch_num(offset, batch_size), Len(plan)))
    /\ UNCHANGED <<deleted, remote, entries>>
    /\ NextChunk

(* Line 58 answers with a complete result (lines 62-64). *)
SubmitComplete ==
    /\ deleter = "batch_delete_fast" /\ bpc = "submit"
    /\ chunk_state' = Append(chunk_state, "completed_immediate")
    /\ submitted' = Append(submitted, batch)
    /\ \E batch_result \in BatchResults(batch, remote) : Completed(batch_result)
    /\ UNCHANGED <<deleter, plan, batch_size, remote0, raised, reran, poll_wait,
                   crawlVars, dedupeVars, toolVars>>

(* Line 58 answers with an async job id (lines 65-67). *)
SubmitAsync_NoWait ==
    /\ deleter = "batch_delete_fast" /\ bpc = "submit"
    /\ chunk_state' = Append(chunk_state, "pending")
    /\ processed' = Append(processed, 0)
    /\ submitted' = Append(submitted, batch)
    /\ NextChunk
    /\ UNCHANGED <<deleter, plan, batch_size, remote, remote0, deleted, failed,
                   entries, printed, failed_paths, raised, reran, slept, poll_wait,
                   crawlVars, dedupeVars, toolVars>>
SubmitAsync ==
    /\ deleter = "batch_delete_fast" /\ bpc = "submit"
    /\ chunk_state' = Append(chunk_state, "pending")
    /\ processed' = Append(processed, 0)
    /\ submitted' = Append(submitted, batch)
    /\ polls' = 0
    /\ bpc' = "poll"
    /\ UNCHANGED <<deleter, plan, batch_size, remote, remote0, offset, deleted, failed,
                   entries, printed, failed_paths, raised, reran, slept, poll_wait,
                   crawlVars, dedupeVars, toolVars>>

(* Line 58 raises ApiError: the handler of lines 90-94. *)
SubmitApiError ==
    /\ deleter = "batch_delete_fast" /\ bpc = "submit"
    /\ chunk_state' = Append(chunk_state, "submit_error")
    /\ processed' = Append(processed, 0)
    /\ submitted' = Append(submitted, batch)
    /\ ChunkFailed("batch_api_error")
    /\ UNCHANGED <<deleter, plan, batch_size, remote0, raised, reran, poll_wait,
                   crawlVars, dedupeVars, toolVars>>

(* Line 58 raises an exception that is not an ApiError (a connection       *)
(* error, HttpError, RateLimitError): line 90 does not catch it and the    *)
(* script ends with a traceback.                                           *)
SubmitRaises ==
    /\ deleter = "batch_delete_fast" /\ bpc = "submit"
    /\ chunk_state' = Append(chunk_state, "submit_raised")
    /\ processed' = Append(processed, 0)
    /\ submitted' = Append(submitted, batch)
    /\ raised' = "submit"
    /\ bpc' = "aborted"
    /\ UNCHANGED <<deleter, plan, batch_size, remote, remote0, offset, deleted, failed, polls,
                   entries, printed, failed_paths, reran, slept, poll_wait,
                   crawlVars, dedupeVars, toolVars>>

(* Lines 71-72 and 82: the job is still in progress. *)
PollInProgress_GivesUp ==
    /\ deleter = "batch_delete_fast" /\ bpc = "poll"
    /\ poll_wait' = POLL_INTERVAL
    /\ polls < MaxPolls
    /\ NextChunk
    /\ UNCHANGED <<deleter, plan, batch_size, remote, remote0, deleted, failed,
                   submitted, entries, printed, failed_paths, raised, reran,
                   chunkLog,
                   crawlVars, dedupeVars, toolVars>>
PollInProgress ==
    /\ deleter = "batch_delete_fast" /\ bpc = "poll"
    /\ poll_wait' = POLL_INTERVAL
    /\ polls < MaxPolls
    /\ polls' = polls + 1
    /\ UNCHANGED <<deleter, plan, batch_size, remote, remote0, offset, deleted, failed,
                   submitted, entries, printed, failed_paths, raised, reran, bpc,
                   chunkLog,
                   crawlVars, dedupeVars, toolVars>>

(* Lines 74-77: the job is complete. *)
PollComplete ==
    /\ deleter = "batch_delete_fast" /\ bpc = "poll"
    /\ poll_wait' = POLL_INTERVAL
    /\ chunk_state' = SetLast(chunk_state, "completed")
    /\ \E batch_result \in BatchResults(batch, remote) : Completed(batch_result)
    /\ UNCHANGED <<deleter, plan, batch_size, remote0, submitted, raised, reran,
                   crawlVars, dedupeVars, toolVars>>

(* Lines 78-81: the job failed. *)
PollFailed_KeepsPolling ==
    /\ deleter = "batch_delete_fast" /\ bpc = "poll"
    /\ chunk_state[Len(chunk_state)] = "pending"
    /\ poll_wait' = POLL_INTERVAL
    /\ chunk_state' = SetLast(chunk_state, "failed")
    /\ UNCHANGED <<deleter, plan, batch_size, remote, remote0, offset, deleted, failed, polls,
                   submitted, entries, printed, failed_paths, raised, reran, processed, slept,
                   bpc, crawlVars, dedupeVars, toolVars>>
PollFailed ==
    /\ deleter = "batch_delete_fast" /\ bpc = "poll"
    /\ poll_wait' = POLL_INTERVAL
    /\ chunk_state' = SetLast(chunk_state, "failed")
    /\ ChunkFailed("batch_failed")
    /\ UNCHANGED <<deleter, plan, batch_size, remote0, submitted, raised, reran,
                   processed,
                   crawlVars, dedupeVars, toolVars>>

(* A handler that counts the chunk as failed and goes back to polling. *)
PollApiError_PollsAgain ==
    /\ deleter = "batch_delete_fast" /\ bpc = "poll"
    /\ poll_wait' = POLL_INTERVAL
    /\ chunk_state' = SetLast(chunk_state, "poll_error")
    /\ failed' = failed + Len(batch)
    /\ failed_paths' = failed_paths \o batch
    /\ printed' = Append(printed, Line("batch_api_error", "", batch_num(offset, batch_size)))
    /\ slept' = Append(slept, ERROR_BACKOFF)
    /\ UNCHANGED <<deleter, plan, batch_size, remote, remote0, offset, deleted, polls,
                   submitted, entries, raised, reran, processed, bpc,
                   crawlVars, dedupeVars, toolVars>>
(* Line 72 raises ApiError: the handler of lines 90-94. *)
PollApiError ==
    /\ deleter = "batch_delete_fast" /\ bpc = "poll"
    /\ poll_wait' = POLL_INTERVAL
    /\ chunk_state' = SetLast(chunk_state, "poll_error")
    /\ ChunkFailed("batch_api_error")
    /\ UNCHANGED <<deleter, plan, batch_size, remote0, submitted, raised, reran,
                   processed,
                   crawlVars, dedupeVars, toolVars>>

(* Line 72 raises an exception that is not an ApiError. *)
PollRaises ==
    /\ deleter = "batch_delete_fast" /\ bpc = "poll"
    /\ poll_wait' = POLL_INTERVAL
    /\ chunk_state' = SetLast(chunk_state, "poll_raised")
    /\ raised' = "poll"
    /\ bpc' = "aborted"
    /\ UNCHANGED <<deleter, plan, batch_size, remote, remote0, offset, deleted, failed, polls,
                   submitted, entries, printed, failed_paths, reran, processed, slept,
                   crawlVars, dedupeVars, toolVars>>

(* batch-delete.py, lines 49-64: one path of the plan.  The two nested     *)
(* loops visit the paths in plan order, so offset counts paths here.       *)
DeleteOne ==
    /\ deleter = "batch_delete" /\ bpc = "delete"
    /\ LET path == plan[offset + 1]
           num == batch_num(offset, batch_size)
       IN  \E tag \in EntryTags(path, remote) :
              /\ entries' = Append(entries, [path |-> path, tag |-> tag])
              /\ remote' = IF tag = "success" THEN remote \ {path} ELSE remote
              /\ deleted' = IF tag \in {"success", "not_found"} THEN deleted + 1 ELSE deleted
              /\ failed' = IF tag = "other_failure" THEN failed + 1 ELSE failed
              /\ failed_paths' = IF tag = "other_failure" THEN Append(failed_paths, path)
                                 ELSE failed_paths
              /\ printed' = IF tag = "not_found"
                            THEN Append(printed, Line("already_deleted", path, num))
                            ELSE IF tag = "other_failure"
                            THEN Append(printed, Line("error", path, num))
                            ELSE printed
    /\ offset' = offset + 1
    /\ bpc' = IF offset + 1 < Len(plan) THEN "delete" ELSE "done"
    /\ UNCHANGED <<deleter, plan, batch_size, remote0, polls, submitted, raised, reran,
                   chunkLog, poll_wait,
                   crawlVars, dedupeVars, toolVars>>

(* batch-delete.py, line 51 raises an exception that is not an ApiError. *)
DeleteRaises ==
    /\ deleter = "batch_delete" /\ bpc = "delete"
    /\ raised' = "delete"
    /\ bpc' = "aborted"
    /\ UNCHANGED <<deleter, plan, batch_size, remote, remote0, offset, deleted, failed, polls,
                   submitted, entries, printed, failed_paths, reran, chunkLog, poll_wait,
                   crawlVars, dedupeVars, toolVars>>

(* The script is started again on the same plan file (__main__ of either   *)
(* script) after the last start has ended.                                 *)
Rerun ==
    /\ bpc \in {"done", "aborted"}
    /\ remote0' = remote
    /\ offset' = 0
    /\ deleted' = 0
    /\ failed' = 0
    /\ polls' = 0
    /\ submitted' = <<>>
    /\ entries' = <<>>
    /\ printed' = <<>>
    /\ failed_paths' = <<>>
    /\ raised' = "none"
    /\ reran' = TRUE
    /\ chunk_state' = <<>>
    /\ processed' = <<>>
    /\ slept' = <<>>
    /\ poll_wait' = 0
    /\ bpc' = StartPc(deleter, plan)
    /\ UNCHANGED <<deleter, plan, batch_size, remote, crawlVars, dedupeVars, toolVars>>

BatchNext ==
    \/ SubmitComplete
    \/ SubmitAsync
    \/ SubmitApiError
    \/ SubmitRaises
    \/ PollInProgress
    \/ PollComplete
    \/ PollFailed
    \/ PollApiError
    \/ PollRaises
    \/ DeleteOne
    \/ DeleteRaises
    \/ Rerun

BatchSpec == BatchInit /\ [][BatchNext]_vars

(***************************************************************************)
(* Properties of the batch deleters.                                       *)
(***************************************************************************)
CountTag(es, tags) == Cardinality({k \in 1..Len(es) : es[k].tag \in tags})

(* The chunk a batch number stands for. *)
ChunkOf(num) == Batch(plan, (num - 1) * batch_size, batch_size)

(* The paths of the chunks that failed as a whole. *)
WholeFailed ==
    UNION {Range(ChunkOf(printed[k].batch_num)) :
             k \in {j \in 1..Len(printed) : printed[j].kind \in {"batch_failed", "batch_api_error"}}}

(* C16: in batch_delete_fast every entry reported as success or as a       *)
(* not-found failure adds one to deleted, and every entry reported with    *)
(* any other failure adds one to failed, next to the paths of the chunks   *)
(* that failed as a whole.                                                 *)
C16_OutcomeClassification ==
    deleter = "batch_delete_fast" =>
        /\ deleted = CountTag(entries, {"success", "not_found"})
        /\ failed = CountTag(entries, {"other_failure"}) + Cardinality(WholeFailed)

(* C17: when the submission of a chunk raises an error, batch_delete_fast  *)
(* still submits every other chunk: a run that ended with no error from a  *)
(* poll has submitted all the chunks of its plan.                          *)
C17_PartialFailureIsolation ==
    (deleter = "batch_delete_fast" /\ bpc \in {"done", "aborted"} /\ raised # "poll") =>
        Len(submitted) = num_batches(Len(plan), batch_size)

AllAbsent == Range(plan) \cap remote0 = {}

C19_ItemizedFailures ==
    (bpc = "done" /\ failed > 0) =>
        \A p \in Range(failed_paths) :
            \E k \in 1..Len(printed) : printed[k].kind = "error" /\ printed[k].path = p

RECURSIVE Concat(_)
Concat(chunks) == IF chunks = <<>> THEN <<>> ELSE Head(chunks) \o Concat(Tail(chunks))

Ceil(n, d) == CHOOSE c \in 0..n : c * d >= n /\ (c - 1) * d < n

(* C20: the chunks batch_delete_fast submits are contiguous slices of the  *)
(* plan in plan order, each non-empty and of at most batch_size paths, all *)
(* but the last of exactly batch_size; when the function returns their     *)
(* concatenation is the plan and their number is ceil(len(plan) /          *)
(* batch_size), zero for an empty plan.                                    *)
C20_Chunking ==
    deleter = "batch_delete_fast" =>
        LET joined == Concat(submitted)
            count == Ceil(Len(plan), batch_size)
        IN  /\ Len(joined) <= Len(plan)
            /\ joined = SubSeq(plan, 1, Len(joined))
            /\ \A k \in 1..Len(submitted) :
                  /\ Len(submitted[k]) >= 1
                  /\ Len(submitted[k]) <= batch_size
                  /\ k < count => Len(submitted[k]) = batch_size
            /\ bpc = "done" => (joined = plan /\ Len(submitted) = count)
            /\ (bpc = "done" /\ plan = <<>>) => submitted = <<>>

C20_Witness ==
    /\ deleter = "batch_delete_fast" /\ bpc = "done"
    /\ Len(submitted) >= 2
    /\ Len(submitted[Len(submitted)]) < batch_size

(***************************************************************************)
(* The life of a chunk in batch_delete_fast.                               *)
(***************************************************************************)
Last(states) == states[Len(states)]

(* The state of the k-th chunk, "new" before it is submitted. *)
StateOf(states, k) == IF k <= Len(states) THEN states[k] ELSE "new"

(* The transitions the state machine of the specification names. *)
NamedTransitions ==
    {<<"new", "completed_immediate">>, <<"new", "pending">>, <<"pending", "pending">>,
     <<"pending", "completed">>, <<"pending", "failed">>}

(* The ways out through an exception: ApiError (handled, lines 90-94) or   *)
(* any other exception (not handled).                                      *)
ErrorExits ==
    {<<"new", "submit_error">>, <<"new", "submit_raised">>,
     <<"pending", "poll_error">>, <<"pending", "poll_raised">>}

Ended == {"completed_immediate", "completed", "failed", "submit_error", "poll_error",
          "submit_raised", "poll_raised"}

(* Every chunk moves by one of the transitions of allowed or stays. *)
MovesBy(allowed) ==
    \A k \in 1..Len(chunk_state') :
        \/ StateOf(chunk_state, k) = chunk_state'[k]
        \/ <<StateOf(chunk_state, k), chunk_state'[k]>> \in allowed

(* A result is processed once for a chunk that completed and never for     *)
(* another; the polling loop runs exactly while the chunk in hand awaits    *)
(* its async job; an in_progress answer leaves the loop polling the same   *)
(* job.                                                                    *)
ProcessedOnce ==
    /\ Len(processed') = Len(chunk_state')
    /\ \A k \in 1..Len(chunk_state') :
          processed'[k] = IF chunk_state'[k] \in {"completed_immediate", "completed"} THEN 1 ELSE 0

PolledWhilePending ==
    bpc' = "poll" <=> (chunk_state' # <<>> /\ Last(chunk_state') = "pending")

RepollsSameJob ==
    polls' = polls + 1 =>
        /\ bpc' = "poll"
        /\ submitted' = submitted
        /\ offset' = offset

(* C21 as stated: a chunk follows only the transitions Submitted ->        *)
(* CompletedImmediate and Submitted -> AsyncPending -> (re-poll)* ->       *)
(* Completed | Failed, with its result processed exactly once, polls only  *)
(* of a pending job, and a re-poll after every in_progress answer.         *)
C21_ChunkStateMachine ==
    [][deleter = "batch_delete_fast" =>
          (MovesBy(NamedTransitions) /\ ProcessedOnce /\ PolledWhilePending /\ RepollsSameJob)]_vars

(* C21 amended: the same, with the exits through an exception added: a new *)
(* chunk may also end in a submission error and a pending one in a polling *)
(* error, and no result is processed for such a chunk.                     *)
C21_ChunkStateMachineWithErrors ==
    [][deleter = "batch_delete_fast" =>
          (MovesBy(NamedTransitions \cup ErrorExits) /\ ProcessedOnce /\ PolledWhilePending
           /\ RepollsSameJob)]_vars

C21_Witness ==
    /\ deleter = "batch_delete_fast" /\ bpc = "done"
    /\ Len(chunk_state) = 3
    /\ chunk_state[1] = "completed_immediate"
    /\ chunk_state[2] = "completed"
    /\ chunk_state[3] = "failed"

(* C22: chunks are submitted one after the other in plan order: a chunk is *)
(* submitted only when every chunk before it has ended, it is the next     *)
(* slice of the plan, and only the chunk submitted last can be in flight.  *)
C22_Sequential ==
    [][deleter = "batch_delete_fast" =>
          /\ Len(submitted') > Len(submitted) =>
                /\ \A k \in 1..Len(chunk_state) : chunk_state[k] \in Ended
                /\ submitted' = Append(submitted, ChunkOf(Len(submitted) + 1))
          /\ \A k \in 1..Len(chunk_state') :
                chunk_state'[k] = "pending" => k = Len(chunk_state')
          /\ Len(chunk_state') = Len(submitted')]_vars

C22_Witness ==
    /\ deleter = "batch_delete_fast"
    /\ Len(submitted) = 3
    /\ chunk_state[1] = "completed"
    /\ chunk_state[2] = "submit_error"
    /\ chunk_state[3] = "pending"

(* C23: a chunk that has ended and is followed by another chunk was        *)
(* followed by a wait before that chunk is submitted: BATCH_DELAY after a  *)
(* chunk that completed or whose job failed, ERROR_BACKOFF after a chunk   *)
(* whose submission or polling raised ApiError, and after the backoff the  *)
(* run goes on with the next chunk.                                        *)
C23_WaitBetweenChunks ==
    deleter = "batch_delete_fast" =>
        \A k \in 1..Len(chunk_state) :
            /\ (chunk_state[k] \in {"completed_immediate", "completed", "failed"}
                /\ k < num_batches(Len(plan), batch_size)) =>
                   (Len(slept) >= k /\ slept[k] = BATCH_DELAY)
            /\ chunk_state[k] \in {"submit_error", "poll_error"} =>
                   /\ Len(slept) >= k /\ slept[k] = ERROR_BACKOFF
                   /\ k = Len(chunk_state) =>
                         bpc = IF k < num_batches(Len(plan), batch_size) THEN "submit" ELSE "done"

C23_Witness ==
    /\ deleter = "batch_delete_fast"
    /\ Len(submitted) = 3
    /\ chunk_state[1] \in {"completed_immediate", "completed"}
    /\ chunk_state[2] = "submit_error"
    /\ slept[1] = BATCH_DELAY /\ slept[2] = ERROR_BACKOFF

(* C24: a chunk whose submission failed is submitted again: when a run has *)
(* ended, every chunk whose submission raised was followed by another      *)
(* submission of the same paths.                                           *)
C24_RetryOnTransient ==
    (deleter = "batch_delete_fast" /\ bpc \in {"done", "aborted"}) =>
        \A k \in 1..Len(chunk_state) :
            chunk_state[k] \in {"submit_error", "submit_raised"} =>
                \E j \in (k + 1)..Len(submitted) : submitted[j] = submitted[k]

(* The deleters when every call returns or raises ApiError, and every      *)
(* async job reports complete or failed after at most MaxPolls in_progress *)
(* answers.                                                                *)
BatchAnsweredNext ==
    \/ SubmitComplete
    \/ SubmitAsync
    \/ SubmitApiError
    \/ PollInProgress
    \/ PollComplete
    \/ PollFailed
    \/ PollApiError
    \/ DeleteOne

BatchLiveSpec == BatchInit /\ [][BatchAnsweredNext]_vars /\ WF_vars(BatchAnsweredNext)

AllChunksEnded ==
    /\ bpc = "done"
    /\ Len(chunk_state) = num_batches(Len(plan), batch_size)
    /\ \A k \in 1..Len(chunk_state) : chunk_state[k] \in Ended

(* C25: when every call returns and every async job reports in the end,    *)
(* batch_delete_fast ends with every chunk processed; every poll comes     *)
(* after a wait of POLL_INTERVAL; and the polling loop is left only        *)
(* through a report of the job or an exception, however many in_progress   *)
(* answers came before, with no chunk submitted meanwhile.                 *)
C25_PollingTerminates ==
    /\ (deleter = "batch_delete_fast") ~> AllChunksEnded
    /\ [][deleter = "batch_delete_fast" =>
             /\ (bpc = "poll" /\ bpc' # "poll") =>
                    Last(chunk_state') \in {"completed", "failed", "poll_error", "poll_raised"}
             /\ bpc = "poll" => (submitted' = submitted /\ poll_wait' = POLL_INTERVAL)]_vars

C25_Witness ==
    /\ deleter = "batch_delete_fast" /\ AllChunksEnded
    /\ Len(chunk_state) >= 2
    /\ chunk_state[1] = "completed"
    /\ poll_wait = POLL_INTERVAL

(* The number of times path p occurs in the sequence s. *)
Occurrences(s, p) == Cardinality({k \in 1..Len(s) : s[k] = p})

(* C34: in batch_delete_fast deleted + failed never exceeds the number of  *)
(* paths of the chunks processed so far, and when the function returns it  *)
(* equals the number of paths of the plan.                                 *)
C34_OutcomeAccounting ==
    deleter = "batch_delete_fast" =>
        /\ deleted + failed <= Len(Concat(submitted))
        /\ bpc = "done" => deleted + failed = Len(plan)

(* C35: when a poll of an async job raises ApiError, that step adds every  *)
(* path of the chunk to failed and none to deleted, waits ERROR_BACKOFF    *)
(* and moves to the next chunk (or returns after the last); the chunk is   *)
(* never polled again: its state stays, each of its paths is counted as    *)
(* failed once, and no result entry ever names one of them.                *)
C35_PollErrorFailsChunk ==
    [][deleter = "batch_delete_fast" =>
          /\ (bpc = "poll" /\ Last(chunk_state') = "poll_error") =>
                /\ failed' = failed + Len(batch)
                /\ failed_paths' = failed_paths \o batch
                /\ deleted' = deleted
                /\ entries' = entries
                /\ slept' = Append(slept, ERROR_BACKOFF)
                /\ offset' = offset + batch_size
                /\ submitted' = submitted
                /\ bpc' = IF Len(submitted) < num_batches(Len(plan), batch_size)
                          THEN "submit" ELSE "done"
          /\ \A k \in 1..Len(chunk_state) :
                chunk_state[k] = "poll_error" =>
                   /\ bpc # "poll" \/ k < Len(chunk_state)
                   /\ Len(chunk_state') >= k => chunk_state'[k] = "poll_error"
                   /\ \A p \in Range(submitted[k]) :
                         /\ Occurrences(failed_paths, p) = 1
                         /\ \A j \in 1..Len(entries) : entries[j].path # p]_vars
C35_Witness ==
    /\ deleter = "batch_delete_fast" /\ bpc = "done"
    /\ Len(chunk_state) = 2
    /\ chunk_state[1] = "poll_error"
    /\ chunk_state[2] = "completed"
    /\ Len(submitted[1]) = 2
    /\ failed = 2 /\ deleted = 1

(***************************************************************************)
(* The plan file: written by scripts/smart-dedupe.py (__main__, lines      *)
(* 141-145), read by scripts/batch-delete-fast.py and batch-delete.py      *)
(* (__main__, lines 122-124 and 77-79).                                    *)
(***************************************************************************)

(* The characters of a path after its leading '/': a letter, a space and a *)
(* letter outside ASCII.                                                   *)
NameChars == {"a", " ", "é"}

PlanFilePaths == {<<"/">> \o t : t \in SeqsUpTo(NameChars, MaxNameLen) \ {<<>>}}

(* smart-dedupe.py:143-145: f.write(path + '\n') for each path. *)
RECURSIVE WriteLines(_)
WriteLines(paths) ==
    IF paths = <<>> THEN <<>>
    ELSE Head(paths) \o <<"\n">> \o WriteLines(Tail(paths))

(* Iterating a text file: the lines of text, each up to and without its    *)
(* '\n'; characters after the last '\n' make a last line.                  *)
RECURSIVE Lines(_, _)
Lines(text, line) ==
    IF text = <<>> THEN (IF line = <<>> THEN <<>> ELSE <<line>>)
    ELSE IF Head(text) = "\n" THEN <<line>> \o Lines(Tail(text), <<>>)
    ELSE Lines(Tail(text), Append(line, Head(text)))

(* The characters str.strip() removes, among those of the model. *)
Whitespace == {" ", "\n", "\t", "\r"}

RECURSIVE lstrip(_)
lstrip(line) ==
    IF line # <<>> /\ Head(line) \in Whitespace THEN lstrip(Tail(line)) ELSE line

RECURSIVE rstrip(_)
rstrip(line) ==
    IF line # <<>> /\ line[Len(line)] \in Whitespace
    THEN rstrip(SubSeq(line, 1, Len(line) - 1)) ELSE line

(* str.strip() *)
strip(line) == rstrip(lstrip(line))

(* batch-delete-fast.py:124: [line.strip() for line in f if line.strip()] *)
RECURSIVE StripLines(_)
StripLines(lines) ==
    IF lines = <<>> THEN <<>>
    ELSE IF strip(Head(lines)) # <<>> THEN <<strip(Head(lines))>> \o StripLines(Tail(lines))
    ELSE StripLines(Tail(lines))

LoadLines(text) == StripLines(Lines(text, <<>>))

PlanFileInit ==
    /\ to_write \in SeqsUpTo(PlanFilePaths, MaxLines)
    /\ plan_text = <<>>
    /\ loaded_paths = <<>>
    /\ fpc = "write"
    /\ CrawlIdle /\ DedupeIdle /\ BatchIdle /\ AnalyzeIdle /\ SavingsIdle /\ PickIdle

(* smart-dedupe.py:141-145 *)
WritePlan ==
    /\ fpc = "write"
    /\ plan_text' = WriteLines(sorted(to_write))
    /\ fpc' = "load"
    /\ UNCHANGED <<to_write, loaded_paths, crawlVars, dedupeVars, batchVars, pickVars, analyzeVars,
                   savingsVars>>

(* batch-delete-fast.py:122-124, batch-delete.py:77-79 *)
LoadPlan ==
    /\ fpc = "load"
    /\ loaded_paths' = LoadLines(plan_text)
    /\ fpc' = "done"
    /\ UNCHANGED <<to_write, plan_text, crawlVars, dedupeVars, batchVars, pickVars, analyzeVars,
                   savingsVars>>

PlanFileNext == WritePlan \/ LoadPlan

PlanFileSpec == PlanFileInit /\ [][PlanFileNext]_vars

(* C26: the paths loaded from a plan file are the paths that were written  *)
(* to it, in the same order, whatever spaces and non-ASCII characters they *)
(* contain.                                                                *)
C26_PlanRoundTrip ==
    fpc = "done" => loaded_paths = sorted(to_write)

(***************************************************************************)
(* analyze_files of scripts/catalog-dropbox.py (lines 168-250).  Time is   *)
(* counted in whole days.  The report fields total_size_gb and             *)
(* largest_files, on which nothing else depends, are not carried.          *)
(***************************************************************************)

(* datetime.now() of line 184, as a day number. *)
NOW == 2000

(* 1024 * 1024 of line 214. *)
MiB == 1024 * 1024

(* The length old_files is cut to, line 248. *)
TOP_N == 100

(* The ages of the files of the model: both sides of every bucket limit    *)
(* and a modification time in the future.                                  *)
AgeSamples == {-1, 29, 30, 89, 90, 364, 365, 729, 730, 1094, 1095}

(* file['modified']: None, a string that is no ISO date, or an ISO date.   *)
Modifieds ==
    {[kind |-> "none", day |-> 0], [kind |-> "malformed", day |-> 0]}
    \cup {[kind |-> "iso", day |-> NOW - a] : a \in AgeSamples}

(* The records get_folder_stats builds (lines 122-129), for two files: one *)
(* of exactly 1 MiB and one a byte larger.                                 *)
FileSamples ==
    {[path |-> f.path, extension |-> f.extension, size |-> f.size, modified |-> m, hash |-> "h1"] :
        f \in {[path |-> <<"/", "a", "/", "x">>, extension |-> ".jpg", size |-> MiB],
               [path |-> <<"/", "b">>, extension |-> "", size |-> MiB + 1]},
        m \in Modifieds}

(* str.split(sep): the pieces of p between the occurrences of sep. *)
RECURSIVE Split(_, _, _)
Split(p, sep, piece) ==
    IF p = <<>> THEN <<piece>>
    ELSE IF Head(p) = sep THEN <<piece>> \o Split(Tail(p), sep, <<>>)
    ELSE Split(Tail(p), sep, Append(piece, Head(p)))

(* Line 193: the top-level folder of a path. *)
TopFolder(path) ==
    LET parts == Split(path, "/", <<>>)
    IN  IF Len(parts) > 1 THEN <<"/">> \o parts[2] ELSE <<"/">>

(* Line 188 *)
ExtensionKey(file) == IF file.extension # "" THEN file.extension ELSE "(no extension)"

(* Line 198: if file['modified'] *)
HasModified_Always(file) == TRUE
HasModified(file) == file.modified.kind # "none"

(* Lines 199-200: age_days; the date parses when it is an ISO date. *)
age_days(file) == NOW - file.modified.day

(* Lines 202-212 *)
age_bucket_InclusiveLimits(d) ==
    IF d <= 30 THEN "Last 30 days"
    ELSE IF d <= 90 THEN "30-90 days"
    ELSE IF d <= 365 THEN "3-12 months"
    ELSE IF d <= 365 * 2 THEN "1-2 years"
    ELSE IF d <= 365 * 3 THEN "2-3 years"
    ELSE "3+ years"
age_bucket(d) ==
    IF d < 30 THEN "Last 30 days"
    ELSE IF d < 90 THEN "30-90 days"
    ELSE IF d < 365 THEN "3-12 months"
    ELSE IF d < 365 * 2 THEN "1-2 years"
    ELSE IF d < 365 * 3 THEN "2-3 years"
    ELSE "3+ years"

(* Lines 212-219: the file is marked as an old file. *)
IsOldFile(bucket, size) == bucket = "3+ years" /\ size > MiB

(* round(n / d), to the nearest integer, halves to the even one. *)
RoundDiv(n, d) ==
    LET q == n \div d
        r == n % d
    IN  IF 2 * r > d THEN q + 1
        ELSE IF 2 * r < d THEN q
        ELSE IF q % 2 = 0 THEN q ELSE q + 1

(* Lines 215-219: the entry of old_files; size_mb in hundredths, age_years *)
(* in tenths.                                                              *)
OldFileEntry(file) ==
    [path |-> file.path,
     size_mb |-> RoundDiv(file.size * 100, MiB),
     age_years |-> RoundDiv(age_days(file) * 10, 365)]

(* d[k]['count'] += 1; d[k]['size'] += size, on a defaultdict. *)
Bump(d, k, size) ==
    IF k \in DOMAIN d
    THEN [d EXCEPT ![k] = [count |-> @.count + 1, size |-> @.size + size]]
    ELSE d @@ (k :> [count |-> 1, size |-> size])

(* analysis['duplicates'][hash].append(path), line 226 *)
AppendTo(d, k, path) ==
    IF k \in DOMAIN d THEN [d EXCEPT ![k] = Append(@, path)] ELSE d @@ (k :> <<path>>)

EmptyDict == [k \in {} |-> 0]

RECURSIVE SumSizes(_)
SumSizes(fs) == IF fs = <<>> THEN 0 ELSE Head(fs).size + SumSizes(Tail(fs))

(* sorted(old_files, key=size_mb, reverse=True): stable, largest first. *)
RECURSIVE InsertBySize(_, _)
InsertBySize(x, srt) ==
    IF srt = <<>> THEN <<x>>
    ELSE IF Head(srt).size_mb >= x.size_mb THEN <<Head(srt)>> \o InsertBySize(x, Tail(srt))
    ELSE <<x>> \o srt

RECURSIVE SortBySizeDesc(_)
SortBySizeDesc(es) ==
    IF es = <<>> THEN <<>>
    ELSE InsertBySize(es[Len(es)], SortBySizeDesc(SubSeq(es, 1, Len(es) - 1)))

(* Lines 237-239: the hashes with more than one path. *)
FilterDuplicates(d) == [h \in {k \in DOMAIN d : Len(d[k]) > 1} |-> d[h]]

AnalyzeInit ==
    /\ file_list \in SeqsUpTo(FileSamples, MaxAnalyzed)
    /\ analysis = [total_files |-> Len(file_list),
                   total_size_bytes |-> SumSizes(file_list),
                   by_extension |-> EmptyDict,
                   by_age |-> EmptyDict,
                   duplicates |-> EmptyDict,
                   old_files |-> <<>>,
                   by_folder |-> EmptyDict]
    /\ file_idx = 1
    /\ bucket_of = <<>>
    /\ apc = "loop"
    /\ CrawlIdle /\ DedupeIdle /\ BatchIdle /\ SavingsIdle /\ PlanFileIdle /\ PickIdle

(* One iteration of the loop of line 186 that reaches its end. *)
AnalyzeFile ==
    /\ apc = "loop" /\ file_idx <= Len(file_list)
    /\ LET file == file_list[file_idx]
           aged == HasModified(file)
           bucket == IF aged THEN age_bucket(age_days(file)) ELSE ""
       IN  /\ ~(aged /\ file.modified.kind = "malformed")
           /\ analysis' =
                [analysis EXCEPT
                   !.by_extension = Bump(@, ExtensionKey(file), file.size),
                   !.by_folder = Bump(@, TopFolder(file.path), file.size),
                   !.by_age = IF aged THEN Bump(@, bucket, file.size) ELSE @,
                   !.old_files = IF aged /\ IsOldFile(bucket, file.size)
                                 THEN Append(@, OldFileEntry(file)) ELSE @,
                   !.duplicates = IF file.hash # "" THEN AppendTo(@, file.hash, file.path) ELSE @]
           /\ bucket_of' = Append(bucket_of, bucket)
    /\ file_idx' = file_idx + 1
    /\ UNCHANGED <<file_list, apc, crawlVars, dedupeVars, batchVars, pickVars, savingsVars, planFileVars>>

(* Line 199: datetime.fromisoformat raises ValueError on a string that is  *)
(* no ISO date; nothing in analyze_files or main catches it, and the       *)
(* handler of lines 556-560 ends the script.                               *)
AnalyzeFileRaises ==
    /\ apc = "loop" /\ file_idx <= Len(file_list)
    /\ LET file == file_list[file_idx]
       IN  /\ HasModified(file) /\ file.modified.kind = "malformed"
           /\ analysis' =
                [analysis EXCEPT
                   !.by_extension = Bump(@, ExtensionKey(file), file.size),
                   !.by_folder = Bump(@, TopFolder(file.path), file.size)]
    /\ apc' = "crashed"
    /\ UNCHANGED <<file_list, file_idx, bucket_of, crawlVars, dedupeVars, batchVars, pickVars,
                   savingsVars, planFileVars>>

(* Lines 228-250: after the loop. *)
AnalyzeFinish ==
    /\ apc = "loop" /\ file_idx > Len(file_list)
    /\ analysis' =
         [analysis EXCEPT
            !.duplicates = FilterDuplicates(@),
            !.old_files = LET srt == SortBySizeDesc(@)
                          IN  SubSeq(srt, 1, IF Len(srt) < TOP_N THEN Len(srt) ELSE TOP_N)]
    /\ apc' = "done"
    /\ UNCHANGED <<file_list, file_idx, bucket_of, crawlVars, dedupeVars, batchVars, pickVars,
                   savingsVars, planFileVars>>

AnalyzeNext == AnalyzeFile \/ AnalyzeFileRaises \/ AnalyzeFinish

AnalyzeSpec == AnalyzeInit /\ [][AnalyzeNext]_vars

(***************************************************************************)
(* Properties of analyze_files.                                            *)
(***************************************************************************)
RECURSIVE SumOver(_, _, _)
SumOver(d, keys, field) ==
    IF keys = {} THEN 0
    ELSE LET k == CHOOSE x \in keys : TRUE
         IN  (IF field = "count" THEN d[k].count ELSE d[k].size) + SumOver(d, keys \ {k}, field)

Total(d, field) == SumOver(d, DOMAIN d, field)

Timestamped == {k \in 1..Len(file_list) : file_list[k].modified.kind # "none"}

RECURSIVE SizeOf(_)
SizeOf(idxs) ==
    IF idxs = {} THEN 0
    ELSE LET k == CHOOSE x \in idxs : TRUE IN file_list[k].size + SizeOf(idxs \ {k})

(* C27: a malformed modification timestamp never ends analyze_files: the   *)
(* analysis goes on to its end whatever the entries hold.                  *)
C27_MalformedNotFatal ==
    apc # "crashed"

(* C28: when analyze_files returns, an entry without modification time is  *)
(* in no age bucket, the age buckets count exactly the entries with a     *)
(* timestamp, and the extension totals and the folder totals each count    *)
(* every entry and add up to the total size.                               *)
C28_AbsentTimestampTotals ==
    apc = "done" =>
        /\ \A k \in 1..Len(file_list) :
              file_list[k].modified.kind = "none" => bucket_of[k] = ""
        /\ Total(analysis.by_age, "count") = Cardinality(Timestamped)
        /\ Total(analysis.by_age, "size") = SizeOf(Timestamped)
        /\ Total(analysis.by_extension, "count") = Len(file_list)
        /\ Total(analysis.by_folder, "count") = Len(file_list)
        /\ analysis.total_files = Len(file_list)
        /\ Total(analysis.by_extension, "size") = SizeOf(1..Len(file_list))
        /\ Total(analysis.by_folder, "size") = SizeOf(1..Len(file_list))
        /\ analysis.total_size_bytes = SizeOf(1..Len(file_list))

C28_Witness ==
    /\ apc = "done" /\ Len(file_list) = 2
    /\ file_list[1].modified.kind = "none"
    /\ file_list[2].modified.kind = "iso"
    /\ file_list[1].extension # file_list[2].extension

Buckets == {"Last 30 days", "30-90 days", "3-12 months", "1-2 years", "2-3 years", "3+ years"}

(* The ages each bucket is for. *)
InBucket(b, d) ==
    CASE b = "Last 30 days" -> d < 30
      [] b = "30-90 days" -> 30 <= d /\ d < 90
      [] b = "3-12 months" -> 90 <= d /\ d < 365
      [] b = "1-2 years" -> 365 <= d /\ d < 730
      [] b = "2-3 years" -> 730 <= d /\ d < 1095
      [] b = "3+ years" -> d >= 1095

(* The files of the loop so far that are in the last bucket and larger     *)
(* than 1 MiB.                                                             *)
OldAndLarge ==
    {k \in 1..Len(bucket_of) :
        /\ file_list[k].modified.kind = "iso"
        /\ NOW - file_list[k].modified.day >= 1095
        /\ file_list[k].size > 1048576}

(* C29: every entry with a timestamp is counted in exactly one of the six  *)
(* buckets, the one its whole-day age d falls in (d < 30, 30 <= d < 90,    *)
(* 90 <= d < 365, 365 <= d < 730, 730 <= d < 1095, d >= 1095), and an      *)
(* entry is listed as an old file only if it is in the last bucket and     *)
(* larger than 1 MiB.                                                      *)
C29_AgeBuckets ==
    /\ \A k \in 1..Len(bucket_of) :
          file_list[k].modified.kind = "iso" =>
              /\ bucket_of[k] \in Buckets
              /\ \A b \in Buckets :
                    bucket_of[k] = b <=> InBucket(b, NOW - file_list[k].modified.day)
    /\ apc # "crashed" =>
          /\ Len(analysis.old_files) <= Cardinality(OldAndLarge)
          /\ \A n \in 1..Len(analysis.old_files) :
                \E k \in OldAndLarge : file_list[k].path = analysis.old_files[n].path

C29_Witness ==
    /\ apc = "done" /\ Len(file_list) = 2
    /\ NOW - file_list[1].modified.day = 1095 /\ file_list[1].modified.kind = "iso"
    /\ file_list[1].size > MiB
    /\ bucket_of[1] = "3+ years"
    /\ Len(analysis.old_files) = 1
    /\ NOW - file_list[2].modified.day = 30 /\ file_list[2].modified.kind = "iso"
    /\ bucket_of[2] = "30-90 days"

(***************************************************************************)
(* Savings accounting: generate_recommendations of scripts/                *)
(* catalog-dropbox.py (lines 260-273) and analyze_duplicates of scripts/   *)
(* analyze-dropbox-duplicates.py (lines 24-84), on one catalog report.     *)
(***************************************************************************)

(* The files of a crawl: the first n paths of PathList, as listed or in    *)
(* the opposite order, each with a content hash and a size.                *)
Inventories ==
    UNION {UNION {{[k \in 1..n |-> [path |-> order[k], hash |-> h[k], size |-> sz[k]]] :
                      h \in [1..n -> {"h1", "h2"}], sz \in [1..n -> {MiB, MiB + 1}]} :
                  order \in {SubSeq(PathList, 1, n), Reverse(SubSeq(PathList, 1, n))}} :
           n \in 0..MaxInventory}

(* path_to_file[path], for the dict of lines 265 and 33: the last file     *)
(* with that path.                                                         *)
InPathToFile(all, path) == \E k \in 1..Len(all) : all[k].path = path

path_to_file(all, path) ==
    all[CHOOSE k \in 1..Len(all) :
            /\ all[k].path = path
            /\ \A j \in (k + 1)..Len(all) : all[j].path # path]

(* [path_to_file[path] for path in paths if path in path_to_file],         *)
(* lines 269 and 46.                                                       *)
RECURSIVE GroupFiles(_, _)
GroupFiles(paths, all) ==
    IF paths = <<>> THEN <<>>
    ELSE IF InPathToFile(all, Head(paths))
         THEN <<path_to_file(all, Head(paths))>> \o GroupFiles(Tail(paths), all)
         ELSE GroupFiles(Tail(paths), all)

(* sum(f['size'] for f in files) - files[0]['size'], lines 272 and 51-52. *)
GroupSavings_WholeGroup(fs) == SumSizes(fs)
GroupSavings(fs) == SumSizes(fs) - fs[1].size

(* Lines 267-272: dup_size over the groups. *)
RECURSIVE DupSize(_, _)
DupSize(groups, all) ==
    IF groups = <<>> THEN 0
    ELSE LET fs == GroupFiles(Head(groups).paths, all)
         IN  (IF fs # <<>> THEN GroupSavings(fs) ELSE 0) + DupSize(Tail(groups), all)

(* analyze-dropbox-duplicates.py lines 41-69: the group_info of every      *)
(* group that is not skipped.                                              *)
RECURSIVE GroupInfos(_, _)
GroupInfos(groups, all) ==
    IF groups = <<>> THEN <<>>
    ELSE LET paths == Head(groups).paths
             fs == GroupFiles(paths, all)
             rest == GroupInfos(Tail(groups), all)
         IN  IF Len(paths) < 2 \/ fs = <<>> THEN rest
             ELSE <<[paths |-> paths,
                     num_copies |-> Len(paths),
                     savings_bytes |-> GroupSavings(fs),
                     file_size |-> fs[1].size]>> \o rest

(* Line 84: sort(key=savings_bytes, reverse=True), stable. *)
RECURSIVE InsertBySavings(_, _)
InsertBySavings(x, srt) ==
    IF srt = <<>> THEN <<x>>
    ELSE IF Head(srt).savings_bytes >= x.savings_bytes
         THEN <<Head(srt)>> \o InsertBySavings(x, Tail(srt))
         ELSE <<x>> \o srt

RECURSIVE SortBySavingsDesc(_)
SortBySavingsDesc(gs) ==
    IF gs = <<>> THEN <<>>
    ELSE InsertBySavings(gs[Len(gs)], SortBySavingsDesc(SubSeq(gs, 1, Len(gs) - 1)))

(* The report main writes holds all_files (catalog-dropbox.py:525); the    *)
(* readers fall back to [] when the key is missing, and a report may list  *)
(* fewer files than its duplicate groups name.                             *)
SavingsInit ==
    /\ \E all \in Inventories :
          /\ report_duplicates = analysis_duplicates(all)
          /\ report_files \in {all, <<>>} \cup (IF all = <<>> THEN {} ELSE {Tail(all)})
    /\ dup_size = 0
    /\ duplicate_groups_by_savings = <<>>
    /\ ran = {}
    /\ CrawlIdle /\ DedupeIdle /\ BatchIdle /\ AnalyzeIdle /\ PlanFileIdle /\ PickIdle

(* catalog-dropbox.py lines 260-273 *)
Recommend ==
    /\ "generate_recommendations" \notin ran
    /\ dup_size' = IF report_duplicates # <<>> THEN DupSize(report_duplicates, report_files)
                   ELSE dup_size
    /\ ran' = ran \cup {"generate_recommendations"}
    /\ UNCHANGED <<report_files, report_duplicates, duplicate_groups_by_savings,
                   crawlVars, dedupeVars, batchVars, pickVars, analyzeVars, planFileVars>>

(* analyze-dropbox-duplicates.py lines 24-84 *)
AnalyzeDuplicates ==
    /\ "analyze_duplicates" \notin ran
    /\ duplicate_groups_by_savings' =
           SortBySavingsDesc(GroupInfos(report_duplicates, report_files))
    /\ ran' = ran \cup {"analyze_duplicates"}
    /\ UNCHANGED <<report_files, report_duplicates, dup_size,
                   crawlVars, dedupeVars, batchVars, pickVars, analyzeVars, planFileVars>>

SavingsNext == Recommend \/ AnalyzeDuplicates

SavingsSpec == SavingsInit /\ [][SavingsNext]_vars

(* The sizes of the members of a group that the inventory holds, in the    *)
(* order of the group.                                                     *)
FoundSizes(paths) ==
    LET found == SelectSeq(paths, LAMBDA q : \E k \in 1..Len(report_files) : report_files[k].path = q)
    IN  [n \in 1..Len(found) |->
           (CHOOSE f \in Range(report_files) : f.path = found[n]).size]

RECURSIVE SumSeq(_)
SumSeq(ns) == IF ns = <<>> THEN 0 ELSE Head(ns) + SumSeq(Tail(ns))

(* Sum of the found sizes minus the first of them; 0 when none is found. *)
Wasted(paths) ==
    LET sizes == FoundSizes(paths)
    IN  IF sizes = <<>> THEN 0 ELSE SumSeq(sizes) - sizes[1]

RECURSIVE WastedOver(_)
WastedOver(groups) ==
    IF groups = <<>> THEN 0 ELSE Wasted(Head(groups).paths) + WastedOver(Tail(groups))

(* C30: the wasted bytes of every duplicate group, as generate_            *)
(* recommendations adds them up and as analyze_duplicates reports them,    *)
(* are the sum of the sizes of the members found in the inventory minus    *)
(* the size of the first such member; never negative; and the sum of the   *)
(* sizes of the members but one, whichever is kept, when all have the same *)
(* size.                                                                   *)
C30_SavingsAccounting ==
    /\ "generate_recommendations" \in ran => dup_size = WastedOver(report_duplicates)
    /\ "analyze_duplicates" \in ran =>
          /\ \A g \in Range(duplicate_groups_by_savings) :
                /\ g.savings_bytes = Wasted(g.paths)
                /\ g.savings_bytes >= 0
                /\ LET sizes == FoundSizes(g.paths)
                   IN  (\A a, b \in 1..Len(sizes) : sizes[a] = sizes[b]) =>
                          \A keep \in 1..Len(sizes) :
                              g.savings_bytes = SumSeq(sizes) - sizes[keep]
          /\ \A g \in Range(report_duplicates) :
                FoundSizes(g.paths) # <<>> =>
                    \E e \in Range(duplicate_groups_by_savings) : e.paths = g.paths
    /\ dup_size >= 0

C30_Witness ==
    /\ ran = {"generate_recommendations", "analyze_duplicates"}
    /\ Len(report_duplicates) = 1
    /\ Len(report_duplicates[1].paths) = 3
    /\ Len(FoundSizes(report_duplicates[1].paths)) = 2
    /\ dup_size = MiB + 1
    /\ duplicate_groups_by_savings[1].savings_bytes = MiB + 1

(***************************************************************************)
(* scripts/find-recipe-dupes.py: the delete list of the duplicated recipe  *)
(* books.                                                                  *)
(***************************************************************************)
RecipeBooksShared == <<"r", "e", "c", "i", "p", "e", "-", "b", "o", "o", "k", "s", "-", "s", "h", "a", "r", "e", "d">>
CalibreLibrary == <<"c", "a", "l", "i", "b", "r", "e", "-", "l", "i", "b", "r", "a", "r", "y">>

(* line 25 *)
recipe_indicators ==
    <<<<"r", "e", "c", "i", "p", "e">>,
      <<"c", "o", "o", "k", "b", "o", "o", "k">>,
      <<"c", "o", "o", "k">>,
      <<"b", "r", "e", "a", "d">>,
      <<"k", "i", "t", "c", "h", "e", "n">>>>

(* str.lower, for the letters the sample paths hold. *)
LowerChar(c) == IF c = "C" THEN "c" ELSE IF c = "B" THEN "b" ELSE c
lower(p) == [i \in 1..Len(p) |-> LowerChar(p[i])]

(* The files of the catalog the script reads: two copies under             *)
(* recipe-books-shared, two under calibre-library (one of them named with  *)
(* a capital letter, one with no recipe word in its path) and two          *)
(* elsewhere, one of them no EPUB and with no recipe word.                 *)
RecipeCatalog ==
    <<[path |-> <<"/">> \o RecipeBooksShared \o <<"/", "a">>, extension |-> ".epub"],
      [path |-> <<"/">> \o RecipeBooksShared \o <<"/", "b">>, extension |-> ".epub"],
      [path |-> <<"/">> \o CalibreLibrary \o <<"/", "C", "o", "o", "k">>, extension |-> ".epub"],
      [path |-> <<"/">> \o CalibreLibrary \o <<"/", "b">>, extension |-> ".epub"],
      [path |-> <<"/", "c", "o", "o", "k">>, extension |-> ".epub"],
      [path |-> <<"/", "n">>, extension |-> ".pdf"]>>

RecipePaths == {RecipeCatalog[k].path : k \in 1..Len(RecipeCatalog)}

(* The duplicate groups: at least two different paths, in any order. *)
RecipeGroups ==
    {g \in SeqsUpTo(RecipePaths, MaxGroupPaths) : Len(g) >= 2 /\ NoRepeats(g)}

(* The lists of up to n groups of pool that share no member. *)
RECURSIVE DisjointGroups(_, _)
DisjointGroups(pool, n) ==
    IF n = 0 THEN {<<>>}
    ELSE LET shorter == DisjointGroups(pool, n - 1)
         IN  shorter \cup
             UNION {{Append(gs, g) :
                       g \in {h \in pool :
                                \A k \in 1..Len(gs) : Range(gs[k]) \cap Range(h) = {}}} :
                    gs \in {t \in shorter : Len(t) = n - 1}}

(* line 13: path_to_file has the key p. *)
InRecipeFiles(all, p) == \E k \in 1..Len(all) : all[k].path = p

(* line 20: files. The value of a key given twice is the last one given. *)
RecipeFilesOf(all, paths) ==
    LET found == SelectSeq(paths, LAMBDA p : InRecipeFiles(all, p))
    IN  [i \in 1..Len(found) |->
           all[CHOOSE k \in 1..Len(all) :
                 /\ all[k].path = found[i]
                 /\ \A j \in (k + 1)..Len(all) : all[j].path # found[i]]]

(* line 26 *)
is_recipe(paths) ==
    \E k \in 1..Len(paths) :
        \E n \in 1..Len(recipe_indicators) : Contains(lower(paths[k]), recipe_indicators[n])

(* lines 21-22 and 28-29: the group is skipped. *)
RecipeSkipped(all, paths) ==
    LET files == RecipeFilesOf(all, paths)
    IN  \/ files = <<>>
        \/ files[1].extension # ".epub"
        \/ ~is_recipe(paths)

(* keep_path = None *)
NoPath == <<>>

(* lines 32-46: the loop over the paths of one group. *)
RECURSIVE DecideGroup(_, _, _)
DecideGroup(paths, keep_path, delete_paths) ==
    IF paths = <<>> THEN [keep_path |-> keep_path, delete_paths |-> delete_paths]
    ELSE LET path == Head(paths)
         IN  IF Contains(path, RecipeBooksShared)
             THEN DecideGroup(Tail(paths), path, delete_paths)
             ELSE IF Contains(path, CalibreLibrary)
             THEN DecideGroup(Tail(paths), keep_path, Append(delete_paths, path))
             ELSE IF keep_path = NoPath
             THEN DecideGroup(Tail(paths), path, delete_paths)
             ELSE DecideGroup(Tail(paths), keep_path, Append(delete_paths, path))

RecipeInit ==
    /\ recipe_all_files \in {RecipeCatalog, SubSeq(RecipeCatalog, 1, 4) \o <<RecipeCatalog[6]>>}
    /\ recipe_duplicates \in DisjointGroups(RecipeGroups, MaxGroups) \ {<<>>}
    /\ recipe_group = 1
    /\ recipe_dupes_to_delete = <<>>
    /\ decisions = <<>>
    /\ rpc = "loop"
    /\ CrawlIdle /\ DedupeIdle /\ BatchIdle
    /\ AnalyzeIdle /\ SavingsIdle /\ PlanFileIdle /\ PhotoIdle

(* One iteration of the loop of line 18, lines 19-49. *)
RecipeGroup ==
    /\ rpc = "loop"
    /\ recipe_group <= Len(recipe_duplicates)
    /\ LET paths == recipe_duplicates[recipe_group]
       IN  IF RecipeSkipped(recipe_all_files, paths)
           THEN UNCHANGED <<recipe_dupes_to_delete, decisions>>
           ELSE LET d == DecideGroup(paths, NoPath, <<>>)
                IN  /\ recipe_dupes_to_delete' = recipe_dupes_to_delete \o d.delete_paths
                    /\ decisions' = Append(decisions, [paths |-> paths,
                                                       keep_path |-> d.keep_path,
                                                       delete_paths |-> d.delete_paths])
    /\ recipe_group' = recipe_group + 1
    /\ UNCHANGED <<recipe_all_files, recipe_duplicates, rpc, photoVars,
                   crawlVars, dedupeVars, batchVars, analyzeVars, savingsVars, planFileVars>>

(* The loop is exhausted: the results are printed, lines 51-54. *)
RecipePrint ==
    /\ rpc = "loop"
    /\ recipe_group > Len(recipe_duplicates)
    /\ rpc' = "done"
    /\ UNCHANGED <<recipe_all_files, recipe_duplicates, recipe_group, recipe_dupes_to_delete,
                   decisions, photoVars,
                   crawlVars, dedupeVars, batchVars, analyzeVars, savingsVars, planFileVars>>

RecipeNext == RecipeGroup \/ RecipePrint

RecipeSpec == RecipeInit /\ [][RecipeNext]_vars

(* C37: of every duplicate group find-recipe-dupes.py processes, at least  *)
(* one path is not in the delete list, and the path chosen as keep_path is *)
(* not in it.                                                              *)
C37_RecipeCopySurvives ==
    \A k \in 1..Len(decisions) :
        /\ Range(decisions[k].paths) \ Range(decisions[k].delete_paths) # {}
        /\ Range(decisions[k].paths) \ Range(recipe_dupes_to_delete) # {}
        /\ decisions[k].keep_path \notin Range(recipe_dupes_to_delete)

(***************************************************************************)
(* scripts/find-photo-dupes.py, analyze_duplicates: the photo kept and the *)
(* duplicates of every hash group.                                         *)
(***************************************************************************)
(* datetime.max, line 154, on the scale of the sample times. *)
datetime_max == 9999

(* x['modified'] is None *)
NoTime == 0

(* The photos scan_photos found (lines 112-118): four paths of one length  *)
(* and a longer one, two of them modified at the same time and one with no *)
(* modification time.                                                      *)
PhotoPool ==
    {[path |-> <<"/", "a", ".", "j", "p", "g">>, size |-> 10, modified |-> 5],
     [path |-> <<"/", "b", ".", "j", "p", "g">>, size |-> 20, modified |-> 3],
     [path |-> <<"/", "x", "/", "c", ".", "j", "p", "g">>, size |-> 30, modified |-> 1],
     [path |-> <<"/", "d", ".", "j", "p", "g">>, size |-> 40, modified |-> NoTime],
     [path |-> <<"/", "e", ".", "j", "p", "g">>, size |-> 50, modified |-> 3]}

(* The hash groups: one photo or more, in the order of the listing. *)
PhotoGroups ==
    {g \in SeqsUpTo(PhotoPool, MaxGroupPhotos) : Len(g) >= 1 /\ NoRepeats(g)}

(* A key that puts a photo with no modification time first. *)
ModifiedKey_AbsentFirst(x) == x.modified
(* line 154: x['modified'] if x['modified'] else datetime.max *)
ModifiedKey(x) == IF x.modified # NoTime THEN x.modified ELSE datetime_max

(* lines 152-155: the order of the tuples (len(x['path']), modified key). *)
PhotoKeyLess(a, b) ==
    \/ Len(a.path) < Len(b.path)
    \/ Len(a.path) = Len(b.path) /\ ModifiedKey(a) < ModifiedKey(b)

RECURSIVE InsertByPhotoKey(_, _)
InsertByPhotoKey(x, srt) ==
    IF srt = <<>> THEN <<x>>
    ELSE IF PhotoKeyLess(x, Head(srt)) THEN <<x>> \o srt
    ELSE <<Head(srt)>> \o InsertByPhotoKey(x, Tail(srt))

(* lines 152-155: sorted(group, key=...), stable. *)
RECURSIVE group_sorted(_)
group_sorted(grp) ==
    IF grp = <<>> THEN <<>>
    ELSE InsertByPhotoKey(grp[Len(grp)], group_sorted(SubSeq(grp, 1, Len(grp) - 1)))

(* line 164: sum(d['size'] for d in dupes) *)
waste_size(dupes) == SumSizes(dupes)

PhotoInit ==
    /\ hash_groups \in DisjointGroups(PhotoGroups, MaxGroups) \ {<<>>}
    /\ photo_group = 1
    /\ photo_duplicates = <<>>
    /\ total_dupe_count = 0
    /\ total_dupe_size = 0
    /\ ppc = "loop"
    /\ CrawlIdle /\ DedupeIdle /\ BatchIdle
    /\ AnalyzeIdle /\ SavingsIdle /\ PlanFileIdle /\ RecipeIdle

(* One iteration of the loop of line 149, lines 150-168. *)
PhotoGroup ==
    /\ ppc = "loop"
    /\ photo_group <= Len(hash_groups)
    /\ LET grp == hash_groups[photo_group]
           srt == group_sorted(grp)
           keep == srt[1]
           dupes == Tail(srt)
       IN  IF Len(grp) > 1
           THEN /\ photo_duplicates' =
                      Append(photo_duplicates,
                             [content_hash |-> photo_group, keep |-> keep, duplicates |-> dupes,
                              count |-> Len(dupes), waste_size |-> waste_size(dupes)])
                /\ total_dupe_count' = total_dupe_count + Len(dupes)
                /\ total_dupe_size' = total_dupe_size + waste_size(dupes)
           ELSE UNCHANGED <<photo_duplicates, total_dupe_count, total_dupe_size>>
    /\ photo_group' = photo_group + 1
    /\ UNCHANGED <<hash_groups, ppc, recipeVars,
                   crawlVars, dedupeVars, batchVars, analyzeVars, savingsVars, planFileVars>>

(* The loop is exhausted: line 170. *)
PhotoReturn ==
    /\ ppc = "loop"
    /\ photo_group > Len(hash_groups)
    /\ ppc' = "done"
    /\ UNCHANGED <<hash_groups, photo_group, photo_duplicates, total_dupe_count,
                   total_dupe_size, recipeVars,
                   crawlVars, dedupeVars, batchVars, analyzeVars, savingsVars, planFileVars>>

PhotoNext == PhotoGroup \/ PhotoReturn

PhotoSpec == PhotoInit /\ [][PhotoNext]_vars

(* The hash groups of two photos or more among the first n. *)
Multiples(n) == {k \in 1..n : Len(hash_groups[k]) >= 2}

RECURSIVE SpareCopies(_)
SpareCopies(ks) ==
    IF ks = {} THEN 0
    ELSE LET k == CHOOSE x \in ks : TRUE
         IN  (Len(hash_groups[k]) - 1) + SpareCopies(ks \ {k})

(* C39: every hash group of two photos or more, and no other, is split     *)
(* into one kept photo and the duplicates: the kept photo is not among the *)
(* duplicates, both together are the group, the kept photo has the least   *)
(* path length of the group and, among the photos of that length, the      *)
(* earliest modification time (a photo without one counts as the latest);  *)
(* waste_size is the sum of the sizes of the duplicates and                *)
(* total_dupe_count the sum over the groups of their size less one.        *)
C39_KeptAndDuplicates ==
    /\ {photo_duplicates[i].content_hash : i \in 1..Len(photo_duplicates)}
          = Multiples(photo_group - 1)
    /\ \A i \in 1..Len(photo_duplicates) :
          LET e == photo_duplicates[i]
              grp == hash_groups[e.content_hash]
          IN  /\ Len(grp) >= 2
              /\ e.keep \notin Range(e.duplicates)
              /\ Range(e.duplicates) \cup {e.keep} = Range(grp)
              /\ Len(e.duplicates) = Len(grp) - 1
              /\ e.count = Len(grp) - 1
              /\ \A x \in Range(grp) :
                    /\ Len(e.keep.path) <= Len(x.path)
                    /\ Len(x.path) = Len(e.keep.path) =>
                          \/ x.modified = NoTime
                          \/ e.keep.modified # NoTime /\ e.keep.modified <= x.modified
              /\ e.waste_size = SumSizes(grp) - e.keep.size
    /\ total_dupe_count = SpareCopies(Multiples(photo_group - 1))
    /\ total_dupe_size = SumSeq([i \in 1..Len(photo_duplicates) |-> photo_duplicates[i].waste_size])
C39_Witness ==
    /\ ppc = "done"
    /\ Len(hash_groups) = 2
    /\ Len(photo_duplicates) = 1
    /\ Len(hash_groups[1]) = 3
    /\ photo_duplicates[1].keep = hash_groups[1][3]
    /\ photo_duplicates[1].keep.modified = 3
    /\ \E x \in Range(photo_duplicates[1].duplicates) : x.modified = NoTime
    /\ total_dupe_count = 2
    /\ total_dupe_size = 50

====
